---- MODULE Spec2Model ----
(***************************************************************************)
(* A model of the CSV product importer of the POS application              *)
(* (utils/csv_import.py) and of the part of the product store it drives    *)
(* (database/db_manager.py, models/product.py).                            *)
(*                                                                         *)
(* Text is modelled as a sequence of one-character strings, so that        *)
(* str.lower, str.strip, the `in` substring test and the regular           *)
(* expressions of the cleaners are computed character by character.        *)
(***************************************************************************)
EXTENDS Integers, Sequences, FiniteSets, TLC

VARIABLES
    file,       \* the CSV file on disk the user selected
    db,         \* the rows of the products table
    nextId,     \* the AUTOINCREMENT counter of the products table
    cache,      \* DatabaseManager._product_cache / _last_cache_update
    last,       \* the operation performed last and what it returned
    nImports,   \* number of import_csv_products calls made so far
    nDeletes,   \* number of delete_product calls made so far
    arg,        \* the argument a cleaner or the validator is called with
    logout_flag,     \* whether logout_flag.txt exists
    session_data,    \* today's entry of pos_session.json
    current_session, \* SessionManager.current_session of the running instance
    lastHere,        \* start_session / end_session called last on this instance today
    lastToday,       \* start_session / end_session called last by any instance today
    today,           \* the date the system clock shows, counted in days
    payment,         \* the Payment object of the sale at the till
    nCalculations,   \* number of calculate_change calls made on it so far
    users,           \* the rows of the users table, by id
    user_sessions,   \* the rows of the user_sessions table, by id
    nSessions,       \* the AUTOINCREMENT counter of the user_sessions table
    activities,      \* the rows of the user_activities table, by id
    current_user,    \* UserManager.current_user
    user_session,    \* UserManager.current_session
    db_file,           \* what the database file pos_database.db holds
    backup_dir,        \* the files of the backups directory, oldest first
    backup_settings,   \* BackupManager.backup_settings
    scheduler_running, \* BackupManager.scheduler_running
    scheduler_thread,  \* BackupManager.scheduler_thread
    threads,           \* where each thread started on _run_scheduler stands
    jobs,              \* the jobs registered with the schedule module
    caller,            \* where the thread calling the backup manager stands
    now,               \* the second the system clock shows
    nBackups,          \* number of create_backup calls made so far
    app_products,      \* POSApplication.products
    cart_items,        \* POSApplication.cart_items
    sales              \* the rows of the sales table with their items

\* The state of the importer and its database
importerVars == <<file, db, nextId, cache, nImports, nDeletes>>

\* The state of the session manager and its two files
sessionVars == <<logout_flag, session_data, current_session, lastHere, lastToday, today>>

\* The state of the payment being taken
paymentVars == <<payment, nCalculations>>

\* The state of the user manager and its three tables
userVars == <<users, user_sessions, nSessions, activities, current_user, user_session>>

\* The state of the backup manager, its directory and its threads
backupVars == <<db_file, backup_dir, backup_settings, scheduler_running,
                scheduler_thread, threads, jobs, caller, now, nBackups>>

\* The state of the till: the product grid, the cart and the sales made
salesVars == <<app_products, cart_items, sales>>

\* The state outside the importer
otherVars == <<arg, sessionVars, paymentVars, userVars, backupVars, salesVars>>

\* The state outside the session manager
nonSessionVars == <<importerVars, arg, paymentVars, userVars, backupVars, salesVars>>

\* The state outside the payment
nonPaymentVars == <<importerVars, arg, sessionVars, userVars, backupVars, salesVars>>

\* The state outside the user manager
nonUserVars == <<importerVars, arg, sessionVars, paymentVars, backupVars, salesVars>>

\* The state outside the backup manager
nonBackupVars == <<importerVars, arg, sessionVars, paymentVars, userVars, salesVars>>

vars == <<file, db, nextId, cache, last, nImports, nDeletes, arg,
          logout_flag, session_data, current_session, lastHere, lastToday, today,
          payment, nCalculations,
          users, user_sessions, nSessions, activities, current_user, user_session,
          db_file, backup_dir, backup_settings, scheduler_running,
          scheduler_thread, threads, jobs, caller, now, nBackups,
          app_products, cart_items, sales>>

---------------------------------------------------------------------------
(* Bounds of the model *)

MaxRows == 2
MaxImports == 2
MaxDeletes == 1
MaxHeaders == 3
MaxPreview == 3
MaxValueLen == 5
MaxTransactions == 2
MaxAmount == 3
MaxCalculations == 2
MaxLogins == 2
MaxActivities == 3
MaxUsers == 2
MaxDays == 2
MaxKept == 1
MaxThreads == 2
MaxBackups == 2
MaxVersion == 2
MaxClock == 2
MaxQuantity == 2
MaxSales == 1
FirstDay == 1

---------------------------------------------------------------------------
(* Python values *)

\* None where text is expected (a barcode, a supplier), and where a column
\* index is expected
None == <<"None">>
NoColumn == -1

RECURSIVE SeqMax(_)
SeqMax(s) ==
    IF Len(s) = 1 THEN s[1]
    ELSE LET m == SeqMax(Tail(s)) IN IF s[1] >= m THEN s[1] ELSE m

UpperChars == <<"A","B","C","D","E","F","G","H","I","J","K","L","M",
                "N","O","P","Q","R","S","T","U","V","W","X","Y","Z","É">>
LowerChars == <<"a","b","c","d","e","f","g","h","i","j","k","l","m",
                "n","o","p","q","r","s","t","u","v","w","x","y","z","é">>
DigitChars == <<"0","1","2","3","4","5","6","7","8","9">>

\* str.lower on one character
LowerMap == [i \in 1..Len(UpperChars) |-> LowerChars[i]]
UpperIndex == [c \in {UpperChars[i] : i \in 1..Len(UpperChars)} |->
                  CHOOSE i \in 1..Len(UpperChars) : UpperChars[i] = c]

LowerChar(c) == IF c \in DOMAIN UpperIndex THEN LowerMap[UpperIndex[c]] ELSE c

\* str.lower
StrLower(s) == [i \in 1..Len(s) |-> LowerChar(s[i])]

\* str.isspace on one character
IsSpace(c) == c \in {" ", "\t"}

\* str.strip
StrStrip(s) ==
    IF \A i \in 1..Len(s) : IsSpace(s[i]) THEN <<>>
    ELSE LET lo == CHOOSE i \in 1..Len(s) :
                       ~IsSpace(s[i]) /\ \A j \in 1..(i - 1) : IsSpace(s[j])
             hi == CHOOSE i \in 1..Len(s) :
                       ~IsSpace(s[i]) /\ \A j \in (i + 1)..Len(s) : IsSpace(s[j])
         IN  SubSeq(s, lo, hi)

\* sub in s
StrContains(s, sub) ==
    \E k \in 0..(Len(s) - Len(sub)) : SubSeq(s, k + 1, k + Len(sub)) = sub

DigitSet == {DigitChars[i] : i \in 1..Len(DigitChars)}
DigitIndex == [c \in DigitSet |-> CHOOSE i \in 1..Len(DigitChars) : DigitChars[i] = c]

IsDigit(c) == c \in DigitSet

DigitValue(c) == DigitIndex[c] - 1

\* int(s) for a non-empty string of digits
RECURSIVE DigitsToInt(_)
DigitsToInt(s) ==
    IF s = <<>> THEN 0
    ELSE DigitsToInt(SubSeq(s, 1, Len(s) - 1)) * 10 + DigitValue(s[Len(s)])

CountChar(s, c) == Cardinality({i \in 1..Len(s) : s[i] = c})

---------------------------------------------------------------------------
(* CSVProductImporter.column_mappings *)

FieldMappings(format, field) ==
    IF format = "woocommerce" THEN
        CASE field = "name" ->
               << <<"N","o","m">>, <<"N","a","m","e">>,
                  <<"n","o","m">>, <<"n","a","m","e">> >>
          [] field = "description" ->
               << <<"D","e","s","c","r","i","p","t","i","o","n">>,
                  <<"D","e","s","c","r","i","p","t","i","o","n"," ",
                    "c","o","u","r","t","e">>,
                  <<"d","e","s","c","r","i","p","t","i","o","n">> >>
          [] field = "price" ->
               << <<"T","a","r","i","f"," ","r","é","g","u","l","i","e","r">>,
                  <<"R","e","g","u","l","a","r"," ","p","r","i","c","e">>,
                  <<"P","r","i","x">>, <<"P","r","i","c","e">>,
                  <<"p","r","i","c","e">> >>
          [] field = "barcode" ->
               << <<"U","G","S">>, <<"S","K","U">>,
                  <<"G","T","I","N",","," ","U","P","C",","," ","E","A","N",
                    " ","o","u"," ","I","S","B","N">>,
                  <<"B","a","r","c","o","d","e">>,
                  <<"b","a","r","c","o","d","e">> >>
          [] field = "category" ->
               << <<"C","a","t","é","g","o","r","i","e","s">>,
                  <<"C","a","t","e","g","o","r","i","e","s">>,
                  <<"C","a","t","e","g","o","r","y">>,
                  <<"c","a","t","e","g","o","r","y">> >>
          [] field = "stock" ->
               << <<"S","t","o","c","k">>, <<"s","t","o","c","k">>,
                  <<"S","t","o","c","k"," ","q","u","a","n","t","i","t","y">>,
                  <<"Q","u","a","n","t","i","t","é"," ","e","n"," ",
                    "s","t","o","c","k">> >>
          [] field = "cost_price" ->
               << <<"C","o","s","t">>, <<"c","o","u","t">>,
                  <<"C","o","s","t"," ","p","r","i","c","e">>,
                  <<"P","r","i","x"," ","d","e"," ","r","e","v","i","e","n","t">> >>
    ELSE
        CASE field = "name" ->
               << <<"n","a","m","e">>, <<"n","o","m">>,
                  <<"p","r","o","d","u","c","t","_","n","a","m","e">>,
                  <<"p","r","o","d","u","i","t">> >>
          [] field = "description" ->
               << <<"d","e","s","c","r","i","p","t","i","o","n">>,
                  <<"d","e","s","c">> >>
          [] field = "price" ->
               << <<"p","r","i","c","e">>, <<"p","r","i","x">>,
                  <<"s","e","l","l","i","n","g","_","p","r","i","c","e">> >>
          [] field = "barcode" ->
               << <<"b","a","r","c","o","d","e">>, <<"s","k","u">>,
                  <<"c","o","d","e">> >>
          [] field = "category" ->
               << <<"c","a","t","e","g","o","r","y">>,
                  <<"c","a","t","e","g","o","r","i","e">> >>
          [] field = "stock" ->
               << <<"s","t","o","c","k">>,
                  <<"q","u","a","n","t","i","t","y">>, <<"q","t","y">> >>
          [] field = "cost_price" ->
               << <<"c","o","s","t">>,
                  <<"c","o","s","t","_","p","r","i","c","e">>,
                  <<"p","r","i","x","_","a","c","h","a","t">> >>

FieldNames ==
    <<"name", "price", "description", "barcode", "category", "stock", "cost_price">>

\* woo_indicators of detect_csv_format
WooIndicators ==
    << <<"U","G","S">>, <<"N","o","m">>,
       <<"T","a","r","i","f"," ","r","é","g","u","l","i","e","r">>,
       <<"C","a","t","é","g","o","r","i","e","s">> >>

---------------------------------------------------------------------------
(* CSVProductImporter.detect_csv_format *)

\* A detector that would compare the indicators without regard to case
DetectFormatIgnoringCase(headers) ==
    IF \E k \in 1..Len(WooIndicators) : \E i \in 1..Len(headers) :
           StrLower(WooIndicators[k]) = StrLower(headers[i])
    THEN "woocommerce" ELSE "generic"

detect_csv_format(headers) ==
    IF \E k \in 1..Len(WooIndicators) : \E i \in 1..Len(headers) :
           WooIndicators[k] = headers[i]
    THEN "woocommerce" ELSE "generic"

(* CSVProductImporter.find_column_index; the index returned is 0-based as *)
(* in the source, None when no alias matches.                              *)

\* The test of line 64 on the lowered and stripped texts
HeaderMatches(mapping_lower, header) ==
    mapping_lower = header \/ StrContains(header, mapping_lower)

HeadersLower(headers) == [i \in 1..Len(headers) |-> StrStrip(StrLower(headers[i]))]

\* A resolver that would take the leftmost header matching any alias
FindColumnLeftmostAnyAlias(headers, field_mappings) ==
    LET headers_lower == HeadersLower(headers)
        mappings_lower == HeadersLower(field_mappings)
        Hit(i) == \E m \in 1..Len(field_mappings) :
                      HeaderMatches(mappings_lower[m], headers_lower[i])
    IN  IF \E i \in 1..Len(headers) : Hit(i)
        THEN (CHOOSE i \in 1..Len(headers) : Hit(i) /\ \A j \in 1..(i - 1) : ~Hit(j)) - 1
        ELSE NoColumn

find_column_index(headers, field_mappings) ==
    LET headers_lower == HeadersLower(headers)
        mappings_lower == HeadersLower(field_mappings)
        Hit(m) == \E i \in 1..Len(headers) :
                      HeaderMatches(mappings_lower[m], headers_lower[i])
    IN  IF \E m \in 1..Len(field_mappings) : Hit(m)
        THEN LET m == CHOOSE a \in 1..Len(field_mappings) :
                          Hit(a) /\ \A b \in 1..(a - 1) : ~Hit(b)
                 i == CHOOSE a \in 1..Len(headers) :
                          /\ HeaderMatches(mappings_lower[m], headers_lower[a])
                          /\ \A b \in 1..(a - 1) :
                                 ~HeaderMatches(mappings_lower[m], headers_lower[b])
             IN  i - 1
        ELSE NoColumn

---------------------------------------------------------------------------
(* Value cleaners.  A float is modelled exactly as a decimal: the record   *)
(* [m, e] stands for m / 10^e, with no trailing zero in the fraction.      *)

Float(int_digits, frac_digits) ==
    LET NonZero(i) == frac_digits[i] # "0"
        frac == IF \E i \in 1..Len(frac_digits) : NonZero(i)
                THEN SubSeq(frac_digits, 1,
                            CHOOSE i \in 1..Len(frac_digits) :
                                NonZero(i) /\ \A j \in (i + 1)..Len(frac_digits) : ~NonZero(j))
                ELSE <<>>
    IN  [m |-> DigitsToInt(int_digits \o frac), e |-> Len(frac)]

Zero == Float(<<>>, <<>>)

\* float(cleaned) for a string of digits, commas and periods: the parsed
\* value, or ok = FALSE where Python raises ValueError
ParseFloat(cleaned) ==
    IF /\ \A i \in 1..Len(cleaned) : IsDigit(cleaned[i]) \/ cleaned[i] = "."
       /\ CountChar(cleaned, ".") <= 1
       /\ \E i \in 1..Len(cleaned) : IsDigit(cleaned[i])
    THEN LET dot == IF CountChar(cleaned, ".") = 1
                    THEN CHOOSE i \in 1..Len(cleaned) : cleaned[i] = "."
                    ELSE Len(cleaned) + 1
         IN  [ok |-> TRUE,
              value |-> Float(SubSeq(cleaned, 1, dot - 1),
                              SubSeq(cleaned, dot + 1, Len(cleaned)))]
    ELSE [ok |-> FALSE, value |-> Zero]

StrRemove(s, c) == LET Keep(x) == x # c IN SelectSeq(s, Keep)

StrReplace(s, c, d) == [i \in 1..Len(s) |-> IF s[i] = c THEN d ELSE s[i]]

\* A cleaner that would read every single comma as the decimal point
CleanPriceCommaIsDecimal(value) ==
    IF value = None \/ value = <<>> \/ StrStrip(value) = <<>> THEN Zero
    ELSE LET Keep(c) == IsDigit(c) \/ c = "," \/ c = "."
             stripped == SelectSeq(value, Keep)
             commas == CountChar(stripped, ",")
             cleaned == IF commas > 0 /\ CountChar(stripped, ".") > 0
                        THEN StrRemove(stripped, ",")
                        ELSE IF commas = 1 THEN StrReplace(stripped, ",", ".")
                        ELSE StrRemove(stripped, ",")
             parsed == ParseFloat(cleaned)
         IN  IF parsed.ok THEN parsed.value ELSE Zero

\* CSVProductImporter.clean_price_value
clean_price_value(value) ==
    IF value = None \/ value = <<>> \/ StrStrip(value) = <<>> THEN Zero
    ELSE LET Keep(c) == IsDigit(c) \/ c = "," \/ c = "."
             stripped == SelectSeq(value, Keep)
             commas == CountChar(stripped, ",")
             after == IF commas = 1
                      THEN Len(stripped) - (CHOOSE i \in 1..Len(stripped) : stripped[i] = ",")
                      ELSE 0
             cleaned == IF commas > 0 /\ CountChar(stripped, ".") > 0
                        THEN StrRemove(stripped, ",")
                        ELSE IF commas > 0
                        THEN IF commas = 1 /\ after <= 2
                             THEN StrReplace(stripped, ",", ".")
                             ELSE StrRemove(stripped, ",")
                        ELSE stripped
             parsed == ParseFloat(cleaned)
         IN  IF parsed.ok THEN parsed.value ELSE Zero

\* A cleaner that would keep the sign of the quantity
CleanStockSigned(value) ==
    IF value = None \/ value = <<>> \/ StrStrip(value) = <<>> THEN 0
    ELSE LET cleaned == SelectSeq(value, IsDigit)
             sign == IF StrStrip(value)[1] = "-" THEN -1 ELSE 1
         IN  IF cleaned # <<>> THEN sign * DigitsToInt(cleaned) ELSE 0

\* CSVProductImporter.clean_stock_value
clean_stock_value(value) ==
    IF value = None \/ value = <<>> \/ StrStrip(value) = <<>> THEN 0
    ELSE LET cleaned == SelectSeq(value, IsDigit)
         IN  IF cleaned # <<>> THEN DigitsToInt(cleaned) ELSE 0

MinBarcodeLen == 2

\* A cleaner that would keep letters and digits only
CleanBarcodeAlphanumeric(value) ==
    IF value = None \/ value = <<>> \/ StrStrip(value) = <<>> THEN None
    ELSE LET Keep(c) == \/ IsDigit(c)
                        \/ c \in {UpperChars[i] : i \in 1..Len(UpperChars)}
                        \/ c \in {LowerChars[i] : i \in 1..Len(LowerChars)}
             original_value == SelectSeq(StrStrip(value), Keep)
         IN  IF Len(original_value) < MinBarcodeLen THEN None ELSE original_value

\* CSVProductImporter.clean_barcode_value
clean_barcode_value(value) ==
    IF value = None \/ value = <<>> \/ StrStrip(value) = <<>> THEN None
    ELSE LET original_value == StrStrip(value)
         IN  IF Len(original_value) < MinBarcodeLen THEN None ELSE original_value

MaxNameLen == 255

ErrNameRequired == "Product name is required"
ErrPrice == "Price must be greater than 0"
ErrNameTooLong == "Product name is too long (max 255 characters)"

\* A validator that would stop at the first rule violated
ValidateFirstErrorOnly(product_data) ==
    IF StrStrip(product_data.name) = <<>> THEN <<ErrNameRequired>>
    ELSE IF product_data.price.m <= 0 THEN <<ErrPrice>>
    ELSE IF Len(product_data.name) > MaxNameLen THEN <<ErrNameTooLong>>
    ELSE <<>>

\* CSVProductImporter.validate_product_data: the list of errors; the flag
\* it returns with the list is Len(errors) = 0
validate_product_data(product_data) ==
    (IF StrStrip(product_data.name) = <<>> THEN <<ErrNameRequired>> ELSE <<>>)
    \o (IF product_data.price.m <= 0 THEN <<ErrPrice>> ELSE <<>>)
    \o (IF Len(product_data.name) > MaxNameLen THEN <<ErrNameTooLong>> ELSE <<>>)

Uncategorized == <<"U","n","c","a","t","e","g","o","r","i","z","e","d">>

---------------------------------------------------------------------------
(* models/product.py and database/db_manager.py                            *)

\* What `except OSError` would catch
OSErrorSubclasses == {"FileNotFoundError"}

\* The classes `except Exception` catches, among those raised here
ExceptionSubclasses ==
    {"FileNotFoundError", "UnicodeDecodeError", "StopIteration",
     "IntegrityError", "ValueError"}

NoException == "none"

\* Product.__post_init__: TRUE where it raises ValueError
PostInitRaises(product) ==
    \/ product.price.m < 0
    \/ product.cost_price.m < 0
    \/ product.name = <<>> \/ StrStrip(product.name) = <<>>

\* Code points in ascending order, for ORDER BY name (BINARY collation)
CodeOrder ==
    <<"\t", " ", ",", "-", ".">> \o DigitChars
    \o SubSeq(UpperChars, 1, 26) \o <<"_">> \o SubSeq(LowerChars, 1, 26)
    \o <<"É", "é">>

CodeRank == [c \in {CodeOrder[i] : i \in 1..Len(CodeOrder)} |->
                CHOOSE i \in 1..Len(CodeOrder) : CodeOrder[i] = c]

CharRank(c) == CodeRank[c]

RECURSIVE StrLess(_, _)
StrLess(a, b) ==
    IF b = <<>> THEN FALSE
    ELSE IF a = <<>> THEN TRUE
    ELSE IF a[1] = b[1] THEN StrLess(Tail(a), Tail(b))
    ELSE CharRank(a[1]) < CharRank(b[1])

\* ORDER BY name; rows of equal name keep their rowid order
RECURSIVE OrderByName(_)
OrderByName(rows) ==
    IF rows = <<>> THEN <<>>
    ELSE LET n == Len(rows)
             x == rows[n]
             sorted == OrderByName(SubSeq(rows, 1, n - 1))
             Before(r) == ~StrLess(x.name, r.name)
             After(r) == StrLess(x.name, r.name)
         IN  SelectSeq(sorted, Before) \o <<x>> \o SelectSeq(sorted, After)

\* DatabaseManager._clear_cache
ClearedCache == [has |-> FALSE, expired |-> FALSE, products |-> <<>>]

\* DatabaseManager.get_all_products: the list returned and the cache after
\* the call.  The list returned is the list object the cache holds.
get_all_products(rows, c) ==
    IF c.has /\ ~c.expired
    THEN [products |-> c.products, cache |-> c]
    ELSE LET IsActive(r) == r.is_active
             products == OrderByName(SelectSeq(rows, IsActive))
         IN  [products |-> products,
              cache |-> [has |-> TRUE, expired |-> FALSE, products |-> products]]

NoProduct ==
    [id |-> 0, name |-> <<>>, description |-> <<>>, price |-> Zero,
     barcode |-> None, category |-> None, stock_quantity |-> 0,
     is_active |-> FALSE, supplier |-> None, cost_price |-> Zero]

\* DatabaseManager.get_product_by_barcode: the SELECT names neither supplier
\* nor cost_price, so the Product it builds carries their defaults
get_product_by_barcode(rows, barcode) ==
    LET hit == {i \in 1..Len(rows) : rows[i].barcode = barcode /\ rows[i].is_active}
    IN  IF hit = {} THEN [found |-> FALSE, product |-> NoProduct]
        ELSE LET i == CHOOSE k \in hit : \A j \in hit : k <= j
             IN  [found |-> TRUE,
                  product |-> [rows[i] EXCEPT !.supplier = None, !.cost_price = Zero]]

\* The UNIQUE constraint on products.barcode: TRUE where writing `barcode`
\* into the row of id `id` (0 for a new row) violates it
BarcodeTaken(rows, barcode, id) ==
    /\ barcode # None
    /\ \E i \in 1..Len(rows) : rows[i].barcode = barcode /\ rows[i].id # id

\* DatabaseManager.save_product on store = [db, nextId, cache]; a product
\* whose id is None is written with id 0 here.  A statement that violates a
\* constraint raises sqlite3.IntegrityError, the connection's context manager
\* rolls back, and _clear_cache is not reached.
save_product(store, product) ==
    IF product.id = 0
    THEN IF BarcodeTaken(store.db, product.barcode, 0)
         THEN [raised |-> TRUE, exc |-> "IntegrityError", db |-> store.db,
               nextId |-> store.nextId, cache |-> store.cache]
         ELSE [raised |-> FALSE, exc |-> NoException,
               db |-> Append(store.db, [product EXCEPT !.id = store.nextId]),
               nextId |-> store.nextId + 1, cache |-> ClearedCache]
    ELSE IF /\ \E i \in 1..Len(store.db) : store.db[i].id = product.id
            /\ BarcodeTaken(store.db, product.barcode, product.id)
         THEN [raised |-> TRUE, exc |-> "IntegrityError", db |-> store.db,
               nextId |-> store.nextId, cache |-> store.cache]
         ELSE [raised |-> FALSE, exc |-> NoException,
               db |-> [i \in 1..Len(store.db) |->
                          IF store.db[i].id = product.id THEN product ELSE store.db[i]],
               nextId |-> store.nextId, cache |-> ClearedCache]

\* DatabaseManager.delete_product: a product with no sale is deleted (one
\* with sales is only deactivated); the cache is left as it is
delete_product(rows, product_id, has_sales) ==
    IF has_sales
    THEN [i \in 1..Len(rows) |->
             IF rows[i].id = product_id THEN [rows[i] EXCEPT !.is_active = FALSE]
             ELSE rows[i]]
    ELSE LET Other(r) == r.id # product_id IN SelectSeq(rows, Other)

---------------------------------------------------------------------------
(* The texts, header rows, data rows and files explored *)

sA == <<"A">>
sAlower == <<"a", " ">>
sB == <<"B">>
s10 == <<"1", "0">>
s0 == <<"0">>
s3c5 == <<"3", ",", "5">>
sX1 == <<"X", "1">>
sSupplier == <<"S">>
sOld == <<"O", "l", "d">>

hNom == <<"N","o","m">>
hName == <<"n","a","m","e">>
hTarif == <<"T","a","r","i","f"," ","r","é","g","u","l","i","e","r">>
hPrice == <<"p","r","i","c","e">>
hUGS == <<"U","G","S">>
hBarcode == <<"b","a","r","c","o","d","e">>
hId == <<"I","D">>

\* Header rows: a WooCommerce export, a generic file, and a file with no
\* name column
WooHeaderRows == { <<hNom, hTarif, hUGS>> }
GenericHeaderRows == { <<hName, hPrice, hBarcode>> }
UnnamedHeaderRows == { <<hId, hPrice, hBarcode>> }

\* Data rows: valid rows with and without a barcode, a row with a price of
\* 0, a row whose name cell is empty, a row with fewer cells than columns,
\* an empty line and a row of blank cells
DataRows ==
    { <<sAlower, s3c5, sX1>>, <<sA, s10, <<>>>>, <<sB, s10, <<>>>>,
      <<sB, s0, <<>>>>, <<<<>>, s10, sX1>>, <<sA, s10>>, <<>>,
      <<<<>>, <<" ">>, <<>>>> }

RowLists == UNION {[1..n -> DataRows] : n \in 0..MaxRows}

\* Files with a category column
hCategories == <<"C","a","t","é","g","o","r","i","e","s">>
sFood == <<"F","o","o","d">>

CategoryHeaderRows == {<<hNom, hTarif, hCategories>>}

CategoryRows ==
    { <<sA, s10, <<>>>>, <<sA, s10, <<" ">>>>, <<sB, s10, sFood>>, <<sB, s10>> }

CategoryFiles ==
    [status : {"ok"}, headers : CategoryHeaderRows,
     rows : UNION {[1..n -> CategoryRows] : n \in 0..MaxRows}, ending : {"eof"}]
    \cup [status : {"ok"}, headers : WooHeaderRows,
          rows : {<<r>> : r \in {<<sA, s10, <<>>>>, <<sB, s10, sX1>>}}, ending : {"eof"}]

Files ==
    [status : {"ok"}, headers : WooHeaderRows, rows : RowLists,
     ending : {"eof", "error"}]
    \cup [status : {"ok"}, headers : GenericHeaderRows \cup UnnamedHeaderRows,
          rows : {r \in RowLists : Len(r) <= 1}, ending : {"eof"}]
    \cup [status : {"missing", "undecodable", "empty"}, headers : {<<>>},
          rows : {<<>>}, ending : {"eof"}]

---------------------------------------------------------------------------
(* Reading the file: open(), csv.reader and next(csv_reader).              *)
(* file.status is "ok", "missing" (open raises FileNotFoundError),         *)
(* "undecodable" (the first read raises UnicodeDecodeError) or "empty" (no *)
(* header row: next raises StopIteration).  file.ending is "eof", or       *)
(* "error" when the reader raises after the last row of file.rows          *)
(* (undecodable bytes or a csv.Error further down the file).               *)

\* The element of a singleton.  The({e : v \in {value}}) is e with the local
\* variable v holding `value`, which is computed once.
The(S) == CHOOSE x \in S : TRUE

ReadHeaders(f) ==
    CASE f.status = "missing" -> [raised |-> TRUE, exc |-> "FileNotFoundError", headers |-> <<>>]
      [] f.status = "undecodable" -> [raised |-> TRUE, exc |-> "UnicodeDecodeError", headers |-> <<>>]
      [] f.status = "empty" -> [raised |-> TRUE, exc |-> "StopIteration", headers |-> <<>>]
      [] OTHER -> [raised |-> FALSE, exc |-> NoException, headers |-> f.headers]

\* The seven find_column_index calls of both entry points
ResolveColumns(headers) ==
    LET mappings == detect_csv_format(headers)
    IN  [name |-> find_column_index(headers, FieldMappings(mappings, "name")),
         price |-> find_column_index(headers, FieldMappings(mappings, "price")),
         desc |-> find_column_index(headers, FieldMappings(mappings, "description")),
         barcode |-> find_column_index(headers, FieldMappings(mappings, "barcode")),
         category |-> find_column_index(headers, FieldMappings(mappings, "category")),
         stock |-> find_column_index(headers, FieldMappings(mappings, "stock")),
         cost |-> find_column_index(headers, FieldMappings(mappings, "cost_price"))]

\* The column indices of the header rows explored, resolved once each
ColumnsOf ==
    [headers \in WooHeaderRows \cup GenericHeaderRows \cup UnnamedHeaderRows
                 \cup CategoryHeaderRows |-> ResolveColumns(headers)]

\* max(idx for idx in [...] if idx is not None)
MaxIdx(idx) ==
    SeqMax(<<idx.name, idx.price, idx.desc, idx.barcode, idx.category,
             idx.stock, idx.cost>>)

\* row[i] for a 0-based i
Cell(row, i) == row[i + 1]

Resolved(row, i) == i # NoColumn /\ i < Len(row)

ErrNoNameColumn == "Could not find product name column"
ErrReading == "Error reading CSV file"
ErrProcessing == "Error processing"

---------------------------------------------------------------------------
(* CSVProductImporter.preview_csv_import                                   *)

PreviewRowData(row, row_num, idx) ==
    [row_number |-> row_num,
     name |-> IF idx.name # NoColumn THEN StrStrip(Cell(row, idx.name)) ELSE <<>>,
     description |-> IF Resolved(row, idx.desc) THEN StrStrip(Cell(row, idx.desc)) ELSE <<>>,
     price |-> IF Resolved(row, idx.price) THEN clean_price_value(Cell(row, idx.price)) ELSE Zero,
     original_barcode |-> IF Resolved(row, idx.barcode) THEN Cell(row, idx.barcode) ELSE <<>>,
     barcode |-> IF Resolved(row, idx.barcode) THEN clean_barcode_value(Cell(row, idx.barcode)) ELSE None,
     category |-> IF Resolved(row, idx.category) THEN StrStrip(Cell(row, idx.category)) ELSE Uncategorized,
     stock_quantity |-> IF Resolved(row, idx.stock) THEN clean_stock_value(Cell(row, idx.stock)) ELSE 0,
     cost_price |-> IF Resolved(row, idx.cost) THEN clean_price_value(Cell(row, idx.cost)) ELSE Zero]

\* The candidate as appended to preview_data: has_errors stands for the
\* presence of the 'errors' key
PreviewCandidate(product_data) ==
    LET validation_errors == validate_product_data(product_data)
    IN  [data |-> product_data,
         has_errors |-> validation_errors # <<>>,
         errors |-> validation_errors]

\* A cap test that would let one more candidate through
PreviewCapReachedAfter(row_count, max_preview) == row_count > max_preview

PreviewCapReached(row_count, max_preview) == row_count >= max_preview

\* The loop over the rows (lines 178-208), from the i-th data row on
RECURSIVE PreviewRows(_, _, _, _, _, _)
PreviewRows(f, idx, max_preview, i, row_count, preview_data) ==
    IF i > Len(f.rows)
    THEN [raised |-> f.ending = "error",
          exc |-> IF f.ending = "error" THEN "UnicodeDecodeError" ELSE NoException,
          preview_data |-> preview_data]
    ELSE IF PreviewCapReached(row_count, max_preview)
    THEN [raised |-> FALSE, exc |-> NoException, preview_data |-> preview_data]
    ELSE IF Len(f.rows[i]) <= MaxIdx(idx)
    THEN PreviewRows(f, idx, max_preview, i + 1, row_count, preview_data)
    ELSE The({ IF product_data.name = <<>>
               THEN PreviewRows(f, idx, max_preview, i + 1, row_count, preview_data)
               ELSE The({ PreviewRows(f, idx, max_preview, i + 1, row_count + 1, appended) :
                          appended \in {Append(preview_data,
                                               PreviewCandidate(product_data))} }) :
               product_data \in {PreviewRowData(f.rows[i], i + 1, idx)} })

\* The rows part of the try block, with the columns resolved
PreviewResolved(f, h, idx, max_preview) ==
    IF idx.name = NoColumn
    THEN [raised |-> FALSE, exc |-> NoException, preview_data |-> <<>>,
          errors |-> <<[row |-> 0, msg |-> ErrNoNameColumn]>>,
          format_detected |-> detect_csv_format(h.headers)]
    ELSE The({ [raised |-> r.raised, exc |-> r.exc, preview_data |-> r.preview_data,
                errors |-> <<>>, format_detected |-> detect_csv_format(h.headers)] :
               r \in {PreviewRows(f, idx, max_preview, 1, 0, <<>>)} })

\* The body of the try block (lines 150-208)
PreviewBody(f, max_preview) ==
    The({ IF h.raised
          THEN [raised |-> TRUE, exc |-> h.exc, preview_data |-> <<>>,
                errors |-> <<>>, format_detected |-> "generic"]
          ELSE The({ PreviewResolved(f, h, idx, max_preview) :
                     idx \in {ColumnsOf[h.headers]} }) :
          h \in {ReadHeaders(f)} })

\* preview_csv_import: what the call returns, and whether it raised
preview_csv_import(f, max_preview) ==
    The({ IF b.raised /\ b.exc \in ExceptionSubclasses
          THEN [raised |-> FALSE, preview_data |-> b.preview_data,
                errors |-> Append(b.errors, [row |-> 0, msg |-> ErrReading]),
                format_detected |-> b.format_detected]
          ELSE [raised |-> b.raised, preview_data |-> b.preview_data,
                errors |-> b.errors, format_detected |-> b.format_detected] :
          b \in {PreviewBody(f, max_preview)} })

---------------------------------------------------------------------------
(* CSVProductImporter.import_csv_products.  The state threaded through the *)
(* rows is st = [db, nextId, cache, imported_count, updated_count, errors]. *)

ImportRowData(row, idx) ==
    [name |-> IF idx.name # NoColumn THEN StrStrip(Cell(row, idx.name)) ELSE <<>>,
     description |-> IF Resolved(row, idx.desc) THEN StrStrip(Cell(row, idx.desc)) ELSE <<>>,
     price |-> IF Resolved(row, idx.price) THEN clean_price_value(Cell(row, idx.price)) ELSE Zero,
     barcode |-> IF Resolved(row, idx.barcode) THEN clean_barcode_value(Cell(row, idx.barcode)) ELSE None,
     category |-> IF Resolved(row, idx.category) THEN StrStrip(Cell(row, idx.category)) ELSE Uncategorized,
     stock_quantity |-> IF Resolved(row, idx.stock) THEN clean_stock_value(Cell(row, idx.stock)) ELSE 0,
     cost_price |-> IF Resolved(row, idx.cost) THEN clean_price_value(Cell(row, idx.cost)) ELSE Zero]

\* prod.name.lower().strip() == name.lower().strip()
SameName(a, b) == StrStrip(StrLower(a)) = StrStrip(StrLower(b))

\* The existing-record lookup (lines 278-289): by = "barcode" with the fresh
\* Product get_product_by_barcode built, by = "name" with the position k of
\* the match in the list get_all_products returned (the cached list), or
\* by = "none".  cache is the cache after the lookup.
FindByName(st, d) ==
    The({ LET hits == {k \in 1..Len(all_products.products) :
                           SameName(all_products.products[k].name, d.name)}
          IN  IF hits # {}
              THEN LET k == CHOOSE a \in hits : \A b \in hits : a <= b
                   IN  [by |-> "name", product |-> all_products.products[k],
                        k |-> k, cache |-> all_products.cache]
              ELSE [by |-> "none", product |-> NoProduct, k |-> 0,
                    cache |-> all_products.cache] :
          all_products \in {get_all_products(st.db, st.cache)} })

FindExisting(st, d) ==
    The({ IF byBarcode.found
          THEN [by |-> "barcode", product |-> byBarcode.product, k |-> 0,
                cache |-> st.cache]
          ELSE FindByName(st, d) :
          byBarcode \in {IF d.barcode # None
                         THEN get_product_by_barcode(st.db, d.barcode)
                         ELSE [found |-> FALSE, product |-> NoProduct]} })

\* The assignments of lines 293-300 to the existing product
Overwritten(existing, d) ==
    [existing EXCEPT !.name = d.name, !.description = d.description,
                     !.price = d.price,
                     !.barcode = IF d.barcode # None THEN d.barcode ELSE @,
                     !.category = d.category,
                     !.stock_quantity = d.stock_quantity,
                     !.cost_price = d.cost_price]

\* Product(id=None, ...) of lines 307-316
NewProduct(d) ==
    [id |-> 0, name |-> d.name, description |-> d.description, price |-> d.price,
     barcode |-> d.barcode, category |-> d.category,
     stock_quantity |-> d.stock_quantity, is_active |-> TRUE,
     supplier |-> None, cost_price |-> d.cost_price]

RowErrors(row_num, msgs) == [i \in 1..Len(msgs) |-> [row |-> row_num, msg |-> msgs[i]]]

\* The body of the inner try block for one row (lines 246-319): the state
\* after it, and whether it raised
\* The update branch (lines 291-303).  An existing product found by name is
\* an element of the cached list: the assignments change the cached object.
UpdateExisting(st, ex, d) ==
    LET product == Overwritten(ex.product, d)
        cache1 == IF ex.by = "name" /\ ex.cache.has
                  THEN [ex.cache EXCEPT !.products[ex.k] = product]
                  ELSE ex.cache
    IN  The({ IF upd.raised
              THEN [raised |-> TRUE, exc |-> upd.exc, st |-> [st EXCEPT !.cache = cache1]]
              ELSE [raised |-> FALSE, exc |-> NoException,
                    st |-> [st EXCEPT !.db = upd.db, !.nextId = upd.nextId,
                                      !.cache = upd.cache, !.updated_count = @ + 1]] :
              upd \in {save_product([db |-> st.db, nextId |-> st.nextId,
                                     cache |-> cache1], product)} })

\* The create branch (lines 305-319)
CreateNew(st, ex, d) ==
    The({ IF ins.raised
          THEN [raised |-> TRUE, exc |-> ins.exc, st |-> [st EXCEPT !.cache = ex.cache]]
          ELSE [raised |-> FALSE, exc |-> NoException,
                st |-> [st EXCEPT !.db = ins.db, !.nextId = ins.nextId,
                                  !.cache = ins.cache, !.imported_count = @ + 1]] :
          ins \in {IF PostInitRaises(NewProduct(d))
                   THEN [raised |-> TRUE, exc |-> "ValueError", db |-> st.db,
                         nextId |-> st.nextId, cache |-> ex.cache]
                   ELSE save_product([db |-> st.db, nextId |-> st.nextId,
                                      cache |-> ex.cache], NewProduct(d))} })

\* Lines 272-321 for the product data d of a row with a name
ImportNamedRow(row_num, update_existing, st, d) ==
    IF validate_product_data(d) # <<>>
    THEN [raised |-> FALSE, exc |-> NoException,
          st |-> [st EXCEPT !.errors = @ \o RowErrors(row_num, validate_product_data(d))]]
    ELSE The({ IF ex.by # "none" /\ update_existing THEN UpdateExisting(st, ex, d)
               ELSE IF ex.by = "none" THEN CreateNew(st, ex, d)
               ELSE [raised |-> FALSE, exc |-> NoException,
                     st |-> [st EXCEPT !.cache = ex.cache]] :
               ex \in {FindExisting(st, d)} })

\* The body of the inner try block for one row (lines 246-319): the state
\* after it, and whether it raised
ImportRowBody(row, row_num, idx, update_existing, st) ==
    IF Len(row) <= MaxIdx(idx) THEN [raised |-> FALSE, exc |-> NoException, st |-> st]
    ELSE The({ IF d.name = <<>> THEN [raised |-> FALSE, exc |-> NoException, st |-> st]
               ELSE ImportNamedRow(row_num, update_existing, st, d) :
               d \in {ImportRowData(row, idx)} })

\* One iteration of the loop: the inner try with its except clause
\* (lines 245-325)
ImportRow(row, row_num, idx, update_existing, st) ==
    The({ IF b.raised /\ b.exc \in ExceptionSubclasses
          THEN [raised |-> FALSE, exc |-> NoException,
                st |-> [b.st EXCEPT !.errors = Append(@, [row |-> row_num,
                                                          msg |-> ErrProcessing])]]
          ELSE b :
          b \in {ImportRowBody(row, row_num, idx, update_existing, st)} })

\* The loop over the rows (lines 244-325), from the i-th data row on
RECURSIVE ImportRows(_, _, _, _, _)
ImportRows(f, idx, update_existing, i, st) ==
    IF i > Len(f.rows)
    THEN [raised |-> f.ending = "error",
          exc |-> IF f.ending = "error" THEN "UnicodeDecodeError" ELSE NoException,
          st |-> st]
    ELSE The({ IF r.raised THEN r
               ELSE ImportRows(f, idx, update_existing, i + 1, r.st) :
               r \in {ImportRow(f.rows[i], i + 1, idx, update_existing, st)} })

ImportStart(store) ==
    [db |-> store.db, nextId |-> store.nextId, cache |-> store.cache,
     imported_count |-> 0, updated_count |-> 0, errors |-> <<>>]

\* The body of the outer try block (lines 222-325)
ImportBody(f, update_existing, store) ==
    The({ IF h.raised THEN [raised |-> TRUE, exc |-> h.exc, st |-> ImportStart(store)]
          ELSE The({ IF idx.name = NoColumn
                     THEN [raised |-> FALSE, exc |-> NoException,
                           st |-> [ImportStart(store) EXCEPT !.errors =
                                       <<[row |-> 0, msg |-> ErrNoNameColumn]>>]]
                     ELSE The({ ImportRows(f, idx, update_existing, 1, st0) :
                                st0 \in {ImportStart(store)} }) :
                     idx \in {ColumnsOf[h.headers]} }) :
          h \in {ReadHeaders(f)} })

\* An outer except clause that would return 0, 0 with the error
ImportResettingCounts(f, update_existing, store) ==
    The({ IF b.raised /\ b.exc \in ExceptionSubclasses
          THEN [raised |-> FALSE,
                st |-> [b.st EXCEPT !.errors = Append(@, [row |-> 0, msg |-> ErrReading]),
                                    !.imported_count = 0, !.updated_count = 0]]
          ELSE [raised |-> b.raised, st |-> b.st] :
          b \in {ImportBody(f, update_existing, store)} })

\* import_csv_products on store = [db, nextId, cache]: the counts and
\* errors it returns, whether it raised, and the store after the call
import_csv_products(f, update_existing, store) ==
    The({ IF b.raised /\ b.exc \in ExceptionSubclasses
          THEN [raised |-> FALSE,
                st |-> [b.st EXCEPT !.errors = Append(@, [row |-> 0, msg |-> ErrReading])]]
          ELSE [raised |-> b.raised, st |-> b.st] :
          b \in {ImportBody(f, update_existing, store)} })

---------------------------------------------------------------------------
(* The inputs explored: files, and product tables the application can hold *)

ProductA ==
    [id |-> 1, name |-> sA, description |-> <<>>, price |-> Float(<<"5">>, <<>>),
     barcode |-> None, category |-> Uncategorized, stock_quantity |-> 1,
     is_active |-> TRUE, supplier |-> sSupplier, cost_price |-> Float(<<"2">>, <<>>)]

\* a product that was sold and then deleted: delete_product deactivated it
ProductOld ==
    [id |-> 2, name |-> sOld, description |-> <<>>, price |-> Float(<<"5">>, <<>>),
     barcode |-> sX1, category |-> Uncategorized, stock_quantity |-> 0,
     is_active |-> FALSE, supplier |-> None, cost_price |-> Zero]

ProductB ==
    [id |-> 2, name |-> sB, description |-> <<>>, price |-> Float(<<"5">>, <<>>),
     barcode |-> sX1, category |-> Uncategorized, stock_quantity |-> 1,
     is_active |-> TRUE, supplier |-> sSupplier, cost_price |-> Zero]

InitialTables ==
    { <<>>, <<ProductA>>, <<ProductA, ProductOld>>, <<ProductA, ProductB>> }

\* The AUTOINCREMENT counter once the records above have been inserted
FirstFreeId == ProductB.id + 1

---------------------------------------------------------------------------
(* The state machine of the importer *)

NoResult ==
    [op |-> "none", max_preview |-> 0, update_existing |-> FALSE, raised |-> FALSE,
     preview_data |-> <<>>, errors |-> <<>>, format_detected |-> "generic",
     imported_count |-> 0, updated_count |-> 0, field |-> "none", index |-> NoColumn]

Store == [db |-> db, nextId |-> nextId, cache |-> cache]

---------------------------------------------------------------------------
(* utils/session_manager.py: the session file, the logout flag, the manager *)

\* A 'logout_time' of None, and what datetime.now().isoformat() gives
NoTime == "None"
Timestamp == "timestamp"

\* get_today_date
get_today_date == today

\* today is not a key of the session file; also current_session = None
NoSession ==
    [present |-> FALSE, date |-> 0, status |-> "none", logout_time |-> NoTime,
     restart_time |-> NoTime, cash_drawer_amount |-> 0, cash_transactions |-> <<>>]

\* The dictionary start_session builds when it does not restart a closed session
NewSession(cash_amount) ==
    [present |-> TRUE, date |-> get_today_date, status |-> "open", logout_time |-> NoTime,
     restart_time |-> NoTime, cash_drawer_amount |-> cash_amount,
     cash_transactions |-> <<>>]

\* Variant: the flag file alone decides
NeedsOpeningByFlagOnly(flag, data, session) ==
    [result |-> flag,
     current_session |-> IF ~flag /\ data.present /\ data.logout_time = NoTime
                         THEN data ELSE session]

\* needs_cash_drawer_opening: the answer, and the session it loads
needs_cash_drawer_opening(flag, data, session) ==
    IF flag THEN [result |-> TRUE, current_session |-> session]
    ELSE IF ~data.present THEN [result |-> TRUE, current_session |-> session]
    ELSE IF data.logout_time = NoTime
         THEN [result |-> FALSE, current_session |-> data]
         ELSE [result |-> TRUE, current_session |-> session]

\* Variant: a restarted session keeps the logout time of the session it reopens
StartSessionKeepingLogoutTime(data, cash_amount) ==
    IF data.present /\ data.logout_time # NoTime
    THEN [data EXCEPT !.restart_time = Timestamp,
                      !.cash_drawer_amount = cash_amount,
                      !.status = "open"]
    ELSE NewSession(cash_amount)

\* start_session: the entry it stores for today and keeps in memory
start_session(data, cash_amount) ==
    IF data.present /\ data.logout_time # NoTime
    THEN [data EXCEPT !.restart_time = Timestamp,
                      !.cash_drawer_amount = cash_amount,
                      !.status = "open",
                      !.logout_time = NoTime]
    ELSE NewSession(cash_amount)

\* end_session: today's entry after the call
end_session(data, session) ==
    The({ IF loaded # NoSession /\ data.present
          THEN [data EXCEPT !.logout_time = Timestamp, !.status = "closed"]
          ELSE data
        : loaded \in {IF session = NoSession /\ data.present THEN data ELSE session} })

\* get_current_session: the session in memory after the call
get_current_session(data, session) ==
    IF session = NoSession /\ data.present /\ data.status = "open"
    THEN data
    ELSE session

\* update_cash_amount: raises without a current session, else records the
\* operation in today's entry and the new amount in the session in memory
update_cash_amount(data, session, new_amount) ==
    The({ IF loaded = NoSession
          THEN [raised |-> TRUE, exc |-> "ValueError", data |-> data,
                current_session |-> loaded]
          ELSE IF data.present
          THEN [raised |-> FALSE, exc |-> "none",
                data |-> [data EXCEPT
                    !.cash_drawer_amount = new_amount,
                    !.cash_transactions = Append(@, [new_balance |-> new_amount])],
                current_session |-> [loaded EXCEPT !.cash_drawer_amount = new_amount]]
          ELSE [raised |-> FALSE, exc |-> "none", data |-> data,
                current_session |-> loaded]
        : loaded \in {get_current_session(data, session)} })

\* get_today_cash_amount: the amount it returns and the session it loads
get_today_cash_amount(data, session) ==
    The({ [amount |-> IF loaded # NoSession THEN loaded.cash_drawer_amount ELSE 0,
           current_session |-> loaded]
        : loaded \in {get_current_session(data, session)} })

\* No session manager call is explored: nothing stored, no instance in use
SessionAtRest ==
    /\ today = FirstDay
    /\ logout_flag = FALSE
    /\ session_data = NoSession
    /\ current_session = NoSession
    /\ lastHere = "none"
    /\ lastToday = "none"

---------------------------------------------------------------------------
(* models/payment.py: amounts are in centimes *)

PaymentMethods == {"cash", "card", "mobile", "check", "store_credit"}

\* No payment has been constructed
NoPayment == [method |-> "none", amount |-> 0, status |-> "none", change_amount |-> 0]

\* Payment.is_cash_payment
is_cash_payment(p) == p.method = "cash"

\* Variant: change is the difference whenever the method is cash
ChangeOfAnyCashAmount(p, total_due) ==
    IF is_cash_payment(p) THEN p.amount - total_due ELSE 0

\* Payment.calculate_change: the value it stores in change_amount and returns
calculate_change(p, total_due) ==
    IF is_cash_payment(p) /\ p.amount > total_due
    THEN p.amount - total_due
    ELSE 0

\* No sale is at the till
PaymentAtRest == payment = NoPayment /\ nCalculations = 0

---------------------------------------------------------------------------
(* database/user_manager.py: accounts, password hashes, login and logout *)

\* hashlib.sha256(text).hexdigest(), taken as free of collisions
Sha256(text) == <<"sha256">> \o text

\* The salts secrets.token_hex may draw
Salts == {<<"1">>, <<"2">>}

\* _hash_password with the salt drawn: the two parts of "salt:hash"
hash_password(password, salt) == <<salt, Sha256(password \o salt)>>

\* _verify_password: a stored value that does not split into two parts at
\* ':' makes the unpacking raise, which returns False
verify_password(password, password_hash) ==
    IF Len(password_hash) # 2 THEN FALSE
    ELSE Sha256(password \o password_hash[1]) = password_hash[2]

\* current_user = None, and the row authenticate did not find
NoUser ==
    [id |-> 0, username |-> "", password_hash |-> <<>>, role |-> "none",
     status |-> "none", last_login |-> NoTime]

\* current_session = None
NoUserSession == [id |-> 0, user_id |-> 0, logout_time |-> NoTime]

\* SELECT ... FROM users WHERE username = ? AND status = 'active'
ActiveRowsNamed(table, username) ==
    SelectSeq(table, LAMBDA row : row.username = username /\ row.status = "active")

\* Variant: the account status is not looked at
AuthenticateAnyStatus(table, username, password) ==
    The({ IF rows = <<>> THEN [user |-> NoUser, users |-> table]
          ELSE IF ~verify_password(password, rows[1].password_hash)
          THEN [user |-> NoUser, users |-> table]
          ELSE [user |-> [rows[1] EXCEPT !.last_login = Timestamp],
                users |-> [k \in 1..Len(table) |->
                              IF table[k].id = rows[1].id
                              THEN [table[k] EXCEPT !.last_login = Timestamp]
                              ELSE table[k]]]
        : rows \in {SelectSeq(table, LAMBDA row : row.username = username)} })

\* authenticate: the User it returns (NoUser for None) and the users table
\* after it, last_login being stamped on success
authenticate(table, username, password) ==
    The({ IF rows = <<>> THEN [user |-> NoUser, users |-> table]
          ELSE IF ~verify_password(password, rows[1].password_hash)
          THEN [user |-> NoUser, users |-> table]
          ELSE [user |-> [rows[1] EXCEPT !.last_login = Timestamp],
                users |-> [k \in 1..Len(table) |->
                              IF table[k].id = rows[1].id
                              THEN [table[k] EXCEPT !.last_login = Timestamp]
                              ELSE table[k]]]
        : rows \in {ActiveRowsNamed(table, username)} })

\* is_logged_in
is_logged_in(user) == user # NoUser

\* The passwords typed at the login window, 'admin123' being the first
pAdmin123 == <<"a">>
pSecret == <<"s">>
Passwords == {pAdmin123, pSecret, pSecret \o <<"1">>, <<>>}

\* The account _create_default_admin inserts into an empty users table
DefaultAdmin ==
    [id |-> 1, username |-> "admin", password_hash |-> hash_password(pAdmin123, <<"1">>),
     role |-> "admin", status |-> "active", last_login |-> NoTime]

\* Nobody is logged in; the users table holds the default administrator
UsersAtRest ==
    /\ users = <<DefaultAdmin>>
    /\ user_sessions = <<>>
    /\ nSessions = 0
    /\ activities = <<>>
    /\ current_user = NoUser
    /\ user_session = NoUserSession

\* BackupManager.scheduler_thread is None
NoThread == 0

\* load_backup_settings when config/backup_settings.json is missing
DefaultSettings == [auto_backup_enabled |-> FALSE, max_backups |-> 30, compression |-> TRUE]

\* No backup was made, automatic backups are off, no scheduler thread exists
BackupAtRest ==
    /\ db_file = 1
    /\ backup_dir = <<>>
    /\ backup_settings = DefaultSettings
    /\ scheduler_running = FALSE
    /\ scheduler_thread = NoThread
    /\ threads = <<>>
    /\ jobs = 0
    /\ caller = "idle"
    /\ now = 1
    /\ nBackups = 0

\* The product grid is not loaded, the cart is empty, nothing was sold
SalesAtRest ==
    /\ app_products = <<>>
    /\ cart_items = <<>>
    /\ sales = <<>>

\* The components other than the importer and the cleaners, at rest
OthersAtRest ==
    SessionAtRest /\ PaymentAtRest /\ UsersAtRest /\ BackupAtRest /\ SalesAtRest

\* No cleaner or validator call is explored
NoArg == [kind |-> "none", value |-> <<>>, product_data |-> [name |-> <<>>, price |-> Zero]]

\* The components outside the importer, at rest
InitOthers == arg = NoArg /\ OthersAtRest

Init ==
    /\ file \in Files
    /\ db \in InitialTables
    /\ nextId = FirstFreeId
    /\ cache = ClearedCache
    /\ last = NoResult
    /\ nImports = 0
    /\ nDeletes = 0
    /\ InitOthers

\* The preview button of the import dialog.  The preview reads nothing but
\* the file, so it is explored as the first operation only.
Preview(max_preview) ==
    /\ last.op = "none"
    /\ \E r \in {preview_csv_import(file, max_preview)} :
           last' = [NoResult EXCEPT !.op = "preview", !.max_preview = max_preview,
                                    !.raised = r.raised, !.preview_data = r.preview_data,
                                    !.errors = r.errors,
                                    !.format_detected = r.format_detected]
    /\ UNCHANGED <<file, db, nextId, cache, nImports, nDeletes>>
    /\ UNCHANGED otherVars

\* The import button of the import dialog
Import(update_existing) ==
    /\ nImports < MaxImports
    /\ nImports' = nImports + 1
    /\ \E r \in {import_csv_products(file, update_existing, Store)} :
           /\ db' = r.st.db
           /\ nextId' = r.st.nextId
           /\ cache' = r.st.cache
           /\ last' = [NoResult EXCEPT !.op = "import",
                                       !.update_existing = update_existing,
                                       !.raised = r.raised, !.errors = r.st.errors,
                                       !.imported_count = r.st.imported_count,
                                       !.updated_count = r.st.updated_count]
    /\ UNCHANGED <<file, nDeletes>>
    /\ UNCHANGED otherVars

\* The product list is loaded (load_products): get_all_products
LoadProducts ==
    /\ cache' = get_all_products(db, cache).cache
    /\ last' = [NoResult EXCEPT !.op = "load"]
    /\ UNCHANGED <<file, db, nextId, nImports, nDeletes>>
    /\ UNCHANGED otherVars

\* The delete button of product management
DeleteProduct(product_id, has_sales) ==
    /\ nDeletes < MaxDeletes
    /\ \E i \in 1..Len(db) : db[i].id = product_id
    /\ nDeletes' = nDeletes + 1
    /\ db' = delete_product(db, product_id, has_sales)
    /\ last' = [NoResult EXCEPT !.op = "delete"]
    /\ UNCHANGED <<file, nextId, cache, nImports>>
    /\ UNCHANGED otherVars

\* _cache_timeout seconds pass since _last_cache_update
CacheTimeout ==
    /\ cache.has /\ ~cache.expired
    /\ cache' = [cache EXCEPT !.expired = TRUE]
    /\ last' = [NoResult EXCEPT !.op = "wait"]
    /\ UNCHANGED <<file, db, nextId, nImports, nDeletes>>
    /\ UNCHANGED otherVars

Next ==
    \/ \E max_preview \in (-1)..MaxPreview : Preview(max_preview)
    \/ \E update_existing \in BOOLEAN : Import(update_existing)
    \/ LoadProducts
    \/ \E product_id \in 1..(FirstFreeId - 1) : \E has_sales \in BOOLEAN :
           DeleteProduct(product_id, has_sales)
    \/ CacheTimeout

Spec == Init /\ [][Next]_vars

---------------------------------------------------------------------------
(* The preview alone, on every file *)

InitPreview ==
    /\ file \in Files
    /\ db = <<>>
    /\ nextId = FirstFreeId
    /\ cache = ClearedCache
    /\ last = NoResult
    /\ nImports = 0
    /\ nDeletes = 0
    /\ InitOthers

NextPreview == \E max_preview \in (-1)..MaxPreview : Preview(max_preview)

SpecPreview == InitPreview /\ [][NextPreview]_vars

---------------------------------------------------------------------------
(* Preview and import of files with a category column *)

InitCategory ==
    /\ file \in CategoryFiles
    /\ db \in {<<>>, <<ProductA>>}
    /\ nextId = FirstFreeId
    /\ cache = ClearedCache
    /\ last = NoResult
    /\ nImports = 0
    /\ nDeletes = 0
    /\ InitOthers

NextCategory ==
    \/ \E max_preview \in (-1)..MaxPreview : Preview(max_preview)
    \/ \E update_existing \in BOOLEAN : Import(update_existing)

SpecCategory == InitCategory /\ [][NextCategory]_vars

---------------------------------------------------------------------------
(* The value cleaners and the validator, each applied to one argument *)

ValueChars == {"1", "0", ",", ".", "-"}

ValueTexts ==
    UNION {[1..n -> ValueChars] : n \in 0..MaxValueLen}
    \cup { None, <<" ">>, <<" ","7"," ">>, <<"$","1">>,
           <<"1","2"," ","u","n","i","t","s">>, <<"a">>, <<" ","a"," ">>,
           <<"a","b">>, <<" ","é","-"," ">>, <<"-","&","é","'","_","à">>,
           <<"a"," ","b">> }

LongName == [i \in 1..(MaxNameLen + 1) |-> "x"]

ProductDatas ==
    [name : {<<>>, <<" ">>, sA, <<" ","A">>, LongName, Tail(LongName)},
     price : {[m |-> -5, e |-> 0], Zero, Float(<<"1","0">>, <<>>), Float(<<>>, <<"0","1">>)}]

\* Either one argument for a cleaner or the validator, or a file to preview
InitValues ==
    /\ db = <<>>
    /\ nextId = FirstFreeId
    /\ cache = ClearedCache
    /\ last = NoResult
    /\ nImports = 0
    /\ nDeletes = 0
    /\ \/ /\ file \in {f \in Files : f.status = "missing"}
          /\ arg \in [kind : {"text"}, value : ValueTexts,
                       product_data : {NoArg.product_data}]
       \/ /\ file \in {f \in Files : f.status = "missing"}
          /\ arg \in [kind : {"product_data"}, value : {<<>>}, product_data : ProductDatas]
       \/ /\ file \in {f \in Files : f.headers \in WooHeaderRows /\ f.ending = "eof"}
          /\ arg = NoArg
    /\ OthersAtRest

\* What the call made last returned
ValueResult(op) ==
    [op |-> op, price |-> Zero, stock |-> 0, barcode |-> None, errors |-> <<>>,
     is_valid |-> TRUE]

CleanPrice ==
    /\ last.op = "none" /\ arg.kind = "text"
    /\ last' = [ValueResult("clean_price") EXCEPT !.price = clean_price_value(arg.value)]
    /\ UNCHANGED importerVars
    /\ UNCHANGED otherVars

CleanStock ==
    /\ last.op = "none" /\ arg.kind = "text"
    /\ last' = [ValueResult("clean_stock") EXCEPT !.stock = clean_stock_value(arg.value)]
    /\ UNCHANGED importerVars
    /\ UNCHANGED otherVars

CleanBarcode ==
    /\ last.op = "none" /\ arg.kind = "text"
    /\ last' = [ValueResult("clean_barcode") EXCEPT
                    !.barcode = clean_barcode_value(arg.value)]
    /\ UNCHANGED importerVars
    /\ UNCHANGED otherVars

\* validate_product_data returns (len(errors) == 0, errors)
Validate ==
    /\ last.op = "none" /\ arg.kind = "product_data"
    /\ \E errors \in {validate_product_data(arg.product_data)} :
           last' = [ValueResult("validate") EXCEPT !.errors = errors,
                                                  !.is_valid = Len(errors) = 0]
    /\ UNCHANGED importerVars
    /\ UNCHANGED otherVars

NextValues ==
    \/ CleanPrice
    \/ CleanStock
    \/ CleanBarcode
    \/ Validate
    \/ arg.kind = "none" /\ Preview(MaxPreview)

SpecValues == InitValues /\ [][NextValues]_vars

---------------------------------------------------------------------------
(* The dialect detector and the column resolver on header rows *)

hNamePadded == <<" ","N","A","M","E"," ">>
hNomLower == <<"n","o","m">>
hEnStock == <<"E","n"," ","s","t","o","c","k"," ","?">>
hStock == <<"S","t","o","c","k">>
hPrixVente == <<"P","r","i","x"," ","d","e"," ","v","e","n","t","e">>

HeaderCells == {hNom, hNomLower, hName, hNamePadded, hEnStock, hStock, hUGS, hPrixVente}

HeaderLists == UNION {[1..n -> HeaderCells] : n \in 0..MaxHeaders}

InitHeaders ==
    /\ file \in [status : {"ok"}, headers : HeaderLists, rows : {<<>>}, ending : {"eof"}]
    /\ db = <<>>
    /\ nextId = FirstFreeId
    /\ cache = ClearedCache
    /\ last = NoResult
    /\ nImports = 0
    /\ nDeletes = 0
    /\ InitOthers

\* Both are pure: each is applied once to the header row
DetectFormat ==
    /\ last.op = "none"
    /\ last' = [NoResult EXCEPT !.op = "detect",
                                !.format_detected = detect_csv_format(file.headers)]
    /\ UNCHANGED <<file, db, nextId, cache, nImports, nDeletes>>
    /\ UNCHANGED otherVars

FindColumn(format, field) ==
    /\ last.op = "none"
    /\ last' = [NoResult EXCEPT !.op = "find", !.format_detected = format, !.field = field,
                                !.index = find_column_index(file.headers,
                                                            FieldMappings(format, field))]
    /\ UNCHANGED <<file, db, nextId, cache, nImports, nDeletes>>
    /\ UNCHANGED otherVars

NextHeaders ==
    \/ DetectFormat
    \/ \E format \in {"woocommerce", "generic"} : \E k \in 1..Len(FieldNames) :
           FindColumn(format, FieldNames[k])

SpecHeaders == InitHeaders /\ [][NextHeaders]_vars

---------------------------------------------------------------------------
(* The session manager over one day: application starts, logins, logouts *)

\* No file is selected for import and the products table is empty
ImporterAtRest ==
    /\ file \in {f \in Files : f.status = "missing"}
    /\ db = <<>>
    /\ nextId = FirstFreeId
    /\ cache = ClearedCache
    /\ nImports = 0
    /\ nDeletes = 0

\* Opening amounts typed into the cash drawer dialog, and amounts the drawer
\* holds after a cash operation
CashAmounts == {0, 100}
NewAmounts == {50}

\* What the session manager call made last returned
SessionResult(op) ==
    [op |-> op, result |-> FALSE, raised |-> FALSE, exc |-> "none", amount |-> 0]

\* First application start of the day: nothing stored for today, no instance
\* has been used; the flag file may be left over from the evening before
InitSession ==
    /\ ImporterAtRest
    /\ arg = NoArg
    /\ PaymentAtRest
    /\ UsersAtRest
    /\ BackupAtRest
    /\ SalesAtRest
    /\ last = SessionResult("__init__")
    /\ today = FirstDay
    /\ logout_flag \in BOOLEAN
    /\ session_data = NoSession
    /\ current_session = NoSession
    /\ lastHere = "none"
    /\ lastToday = "none"

\* SessionManager(): the application starts again
Construct ==
    /\ last.op # "__init__"
    /\ last' = SessionResult("__init__")
    /\ current_session' = NoSession
    /\ lastHere' = "none"
    /\ UNCHANGED <<logout_flag, session_data, lastToday, today>>
    /\ UNCHANGED nonSessionVars

NeedsCashDrawerOpening ==
    /\ \E r \in {needs_cash_drawer_opening(logout_flag, session_data, current_session)} :
           /\ last' = [SessionResult("needs_cash_drawer_opening") EXCEPT
                           !.result = r.result]
           /\ current_session' = r.current_session
    /\ UNCHANGED <<logout_flag, session_data, lastHere, lastToday, today>>
    /\ UNCHANGED nonSessionVars

StartSession(cash_amount) ==
    /\ \E session_info \in {start_session(session_data, cash_amount)} :
           /\ session_data' = session_info
           /\ current_session' = session_info
    /\ logout_flag' = FALSE
    /\ last' = SessionResult("start_session")
    /\ lastHere' = "start"
    /\ lastToday' = "start"
    /\ UNCHANGED today
    /\ UNCHANGED nonSessionVars

EndSession ==
    /\ logout_flag' = TRUE
    /\ session_data' = end_session(session_data, current_session)
    /\ current_session' = NoSession
    /\ last' = SessionResult("end_session")
    /\ lastHere' = "end"
    /\ lastToday' = "end"
    /\ UNCHANGED today
    /\ UNCHANGED nonSessionVars

CloseAppWithoutLogout ==
    /\ last.op # "close_app_without_logout"
    /\ last' = SessionResult("close_app_without_logout")
    /\ UNCHANGED sessionVars
    /\ UNCHANGED nonSessionVars

GetCurrentSession ==
    /\ \E session \in {get_current_session(session_data, current_session)} :
           /\ current_session' = session
           /\ last' = [SessionResult("get_current_session") EXCEPT
                           !.result = session # NoSession]
    /\ UNCHANGED <<logout_flag, session_data, lastHere, lastToday, today>>
    /\ UNCHANGED nonSessionVars

UpdateCashAmount(new_amount) ==
    /\ Len(session_data.cash_transactions) < MaxTransactions
    /\ \E r \in {update_cash_amount(session_data, current_session, new_amount)} :
           /\ session_data' = r.data
           /\ current_session' = r.current_session
           /\ last' = [SessionResult("update_cash_amount") EXCEPT
                           !.raised = r.raised, !.exc = r.exc, !.amount = new_amount]
    /\ UNCHANGED <<logout_flag, lastHere, lastToday, today>>
    /\ UNCHANGED nonSessionVars

GetTodayCashAmount ==
    /\ \E r \in {get_today_cash_amount(session_data, current_session)} :
           /\ current_session' = r.current_session
           /\ last' = [SessionResult("get_today_cash_amount") EXCEPT !.amount = r.amount]
    /\ UNCHANGED <<logout_flag, session_data, lastHere, lastToday, today>>
    /\ UNCHANGED nonSessionVars

\* Midnight passes while the application runs or is closed: date.today()
\* changes, the session file has no entry for the new day yet
NextDay ==
    /\ today < MaxDays
    /\ today' = today + 1
    /\ session_data' = NoSession
    /\ lastHere' = "none"
    /\ lastToday' = "none"
    /\ last' = SessionResult("midnight")
    /\ UNCHANGED <<logout_flag, current_session>>
    /\ UNCHANGED nonSessionVars

NextSession ==
    \/ Construct
    \/ NeedsCashDrawerOpening
    \/ \E cash_amount \in CashAmounts : StartSession(cash_amount)
    \/ EndSession
    \/ CloseAppWithoutLogout
    \/ GetCurrentSession
    \/ \E new_amount \in NewAmounts : UpdateCashAmount(new_amount)
    \/ GetTodayCashAmount
    \/ NextDay

SpecSession == InitSession /\ [][NextSession]_vars

---------------------------------------------------------------------------
(* A payment at the till: change is calculated, the payment is marked *)

\* Amounts tendered, and totals due (a total below zero is a refund sale)
Tendered == 0..MaxAmount
TotalsDue == (-1)..(MaxAmount + 1)

\* What the payment call made last was given and returned
PaymentResult(op, total_due) ==
    [op |-> op, total_due |-> total_due, result |-> 0]

\* A Payment as the payment window builds it or as it is read back from the
\* payments table: the amount is not negative (__post_init__), the stored
\* change is whatever the row holds
InitPayment ==
    /\ ImporterAtRest
    /\ arg = NoArg
    /\ SessionAtRest
    /\ UsersAtRest
    /\ BackupAtRest
    /\ SalesAtRest
    /\ payment \in [method : PaymentMethods, amount : Tendered,
                     status : {"pending"}, change_amount : {-1, 0}]
    /\ nCalculations = 0
    /\ last = PaymentResult("__init__", 0)

CalculateChange(total_due) ==
    /\ nCalculations < MaxCalculations
    /\ \E change \in {calculate_change(payment, total_due)} :
           /\ payment' = [payment EXCEPT !.change_amount = change]
           /\ last' = [PaymentResult("calculate_change", total_due) EXCEPT
                           !.result = change]
    /\ nCalculations' = nCalculations + 1
    /\ UNCHANGED nonPaymentVars

MarkCompleted ==
    /\ payment.status = "pending"
    /\ payment' = [payment EXCEPT !.status = "completed"]
    /\ last' = PaymentResult("mark_completed", 0)
    /\ UNCHANGED nCalculations
    /\ UNCHANGED nonPaymentVars

MarkFailed ==
    /\ payment.status = "pending"
    /\ payment' = [payment EXCEPT !.status = "failed"]
    /\ last' = PaymentResult("mark_failed", 0)
    /\ UNCHANGED nCalculations
    /\ UNCHANGED nonPaymentVars

NextPayment ==
    \/ \E total_due \in TotalsDue : CalculateChange(total_due)
    \/ MarkCompleted
    \/ MarkFailed

SpecPayment == InitPayment /\ [][NextPayment]_vars

---------------------------------------------------------------------------
(* The user manager: logins, logouts and the administration of accounts *)

Usernames == {"admin", "cashier", "ghost"}
Roles == {"admin", "cashier", "manager"}
Statuses == {"active", "inactive", "suspended"}

\* A second account: a cashier whose password is 'secret', active or not,
\* or whose stored password was written without a salt
Cashiers ==
    [id : {DefaultAdmin.id + 1}, username : {"cashier"},
     password_hash : {hash_password(pSecret, <<"2">>), <<pSecret>>},
     role : {"cashier"}, status : {"active", "inactive"}, last_login : {NoTime}]

InitialUsers == {<<DefaultAdmin>>} \cup {<<DefaultAdmin, c>> : c \in Cashiers}

\* What the user manager call made last was given and returned
UserResult(op) ==
    [op |-> op, username |-> "", password |-> <<>>, user_id |-> 0, result |-> FALSE]

\* The application has started: the tables exist, nobody is logged in
InitUsers ==
    /\ ImporterAtRest
    /\ arg = NoArg
    /\ SessionAtRest
    /\ PaymentAtRest
    /\ BackupAtRest
    /\ SalesAtRest
    /\ users \in InitialUsers
    /\ user_sessions = <<>>
    /\ nSessions = 0
    /\ activities = <<>>
    /\ current_user = NoUser
    /\ user_session = NoUserSession
    /\ last = UserResult("__init__")

\* log_activity: a row appended to user_activities
log_activity(table, user_id, activity_type) ==
    Append(table, [user_id |-> user_id, activity_type |-> activity_type])

\* login; created tells whether the INSERT of _create_session succeeds (the
\* database may be locked or the disk full)
Login(username, password, created) ==
    /\ nSessions < MaxLogins
    /\ Len(activities) < MaxActivities
    /\ \E r \in {authenticate(users, username, password)} :
        /\ users' = r.users
        /\ IF r.user = NoUser \/ ~created
           THEN /\ last' = [UserResult("login") EXCEPT !.username = username,
                                                      !.password = password]
                /\ UNCHANGED <<user_sessions, nSessions, activities,
                               current_user, user_session>>
           ELSE \E session \in {[id |-> nSessions + 1, user_id |-> r.user.id,
                                 logout_time |-> NoTime]} :
                /\ user_sessions' = Append(user_sessions, session)
                /\ nSessions' = nSessions + 1
                /\ current_user' = r.user
                /\ user_session' = session
                /\ activities' = log_activity(activities, r.user.id, "LOGIN")
                /\ last' = [UserResult("login") EXCEPT !.username = username,
                                                      !.password = password,
                                                      !.result = TRUE]
    /\ UNCHANGED nonUserVars

\* _end_session: UPDATE user_sessions SET logout_time = ... WHERE id = ?
EndUserSession(table, session_id) ==
    [k \in 1..Len(table) |->
        IF table[k].id = session_id
        THEN [table[k] EXCEPT !.logout_time = Timestamp]
        ELSE table[k]]

Logout ==
    /\ Len(activities) < MaxActivities
    /\ IF current_user = NoUser \/ user_session = NoUserSession
       THEN /\ last' = UserResult("logout")
            /\ UNCHANGED userVars
       ELSE /\ activities' = log_activity(activities, current_user.id, "LOGOUT")
            /\ user_sessions' = EndUserSession(user_sessions, user_session.id)
            /\ current_user' = NoUser
            /\ user_session' = NoUserSession
            /\ last' = [UserResult("logout") EXCEPT !.result = TRUE]
            /\ UNCHANGED <<users, nSessions>>
    /\ UNCHANGED nonUserVars

\* update_user: UPDATE users SET name, role, status WHERE id = ?
UpdateUser(user_id, role, status) ==
    /\ Len(activities) < MaxActivities
    /\ IF current_user = NoUser \/ current_user.role # "admin"
       THEN /\ last' = [UserResult("update_user") EXCEPT !.user_id = user_id]
            /\ UNCHANGED userVars
       ELSE /\ users' = [k \in 1..Len(users) |->
                            IF users[k].id = user_id
                            THEN [users[k] EXCEPT !.role = role, !.status = status]
                            ELSE users[k]]
            /\ activities' = log_activity(activities, current_user.id, "USER_UPDATED")
            /\ last' = [UserResult("update_user") EXCEPT !.user_id = user_id,
                                                         !.result = TRUE]
            /\ UNCHANGED <<user_sessions, nSessions, current_user, user_session>>
    /\ UNCHANGED nonUserVars

\* change_password: UPDATE users SET password_hash = ? WHERE id = ?
ChangePassword(user_id, new_password, salt) ==
    /\ Len(activities) < MaxActivities
    /\ IF current_user = NoUser
          \/ (current_user.role # "admin" /\ current_user.id # user_id)
       THEN /\ last' = [UserResult("change_password") EXCEPT !.user_id = user_id]
            /\ UNCHANGED userVars
       ELSE /\ users' = [k \in 1..Len(users) |->
                            IF users[k].id = user_id
                            THEN [users[k] EXCEPT
                                     !.password_hash = hash_password(new_password, salt)]
                            ELSE users[k]]
            /\ activities' = log_activity(activities, current_user.id, "PASSWORD_CHANGED")
            /\ last' = [UserResult("change_password") EXCEPT !.password = new_password,
                                                             !.user_id = user_id,
                                                             !.result = TRUE]
            /\ UNCHANGED <<user_sessions, nSessions, current_user, user_session>>
    /\ UNCHANGED nonUserVars

\* remove_user: the user's activities, sessions and row are deleted
RemoveUser(user_id) ==
    /\ Len(activities) < MaxActivities
    /\ IF \/ current_user = NoUser
          \/ current_user.role # "admin"
          \/ current_user.id = user_id
          \/ SelectSeq(users, LAMBDA row : row.id = user_id) = <<>>
       THEN /\ last' = [UserResult("remove_user") EXCEPT !.user_id = user_id]
            /\ UNCHANGED userVars
       ELSE /\ activities' =
                   log_activity(SelectSeq(activities, LAMBDA a : a.user_id # user_id),
                                current_user.id, "USER_REMOVED")
            /\ user_sessions' = SelectSeq(user_sessions, LAMBDA x : x.user_id # user_id)
            /\ users' = SelectSeq(users, LAMBDA row : row.id # user_id)
            /\ last' = [UserResult("remove_user") EXCEPT !.user_id = user_id,
                                                         !.result = TRUE]
            /\ UNCHANGED <<nSessions, current_user, user_session>>
    /\ UNCHANGED nonUserVars

NextUsers ==
    \/ \E username \in Usernames : \E password \in Passwords : \E created \in BOOLEAN :
           Login(username, password, created)
    \/ Logout
    \/ \E user_id \in 1..MaxUsers : \E role \in Roles : \E status \in Statuses :
           UpdateUser(user_id, role, status)
    \/ \E user_id \in 1..MaxUsers : \E new_password \in Passwords : \E salt \in Salts :
           ChangePassword(user_id, new_password, salt)
    \/ \E user_id \in 1..MaxUsers : RemoveUser(user_id)

SpecUsers == InitUsers /\ [][NextUsers]_vars

---------------------------------------------------------------------------
(* The backup manager: backups, restores, settings and scheduler threads *)

\* The name create_backup gives a backup taken without a custom name
DefaultName == "backup"

\* A custom_name that is None or empty: create_backup tests "if custom_name"
NoName == ""

\* Custom names handed to create_backup: the test button of the settings
\* dialog, the scheduled job and restore_backup
CustomNames == {"TEST", "auto", "pre_restore"}

\* Settings the settings dialog saves (it refuses max_backups < 1)
SettingsPool ==
    [auto_backup_enabled : BOOLEAN, max_backups : 1..MaxKept, compression : BOOLEAN]

\* load_backup_settings: the settings stored in config/backup_settings.json,
\* when the file exists, laid over the defaults
load_backup_settings(exists, stored) ==
    IF exists
    THEN [key \in DOMAIN DefaultSettings |->
             IF key \in DOMAIN stored THEN stored[key] ELSE DefaultSettings[key]]
    ELSE DefaultSettings

\* The path of a file of the backups directory
PathOf(f) == [prefix |-> f.prefix, stamp |-> f.stamp, suffix |-> f.suffix]

\* A path that names no file
MissingPath == [prefix |-> DefaultName, stamp |-> 0, suffix |-> ".zip"]

\* Path(backup_path).exists()
Exists(dir, path) == \E i \in 1..Len(dir) : PathOf(dir[i]) = path

\* backup_dir.glob("backup_*"): no custom name above begins with backup_
GlobBackup(f) == f.prefix = DefaultName

\* get_backup_list: the files the glob matches, by modification time,
\* newest first
get_backup_list(dir) ==
    LET matched == SelectSeq(dir, GlobBackup)
    IN  [k \in 1..Len(matched) |-> matched[Len(matched) + 1 - k]]

\* cleanup_old_backups: the listed backups after the first max_backups are
\* unlinked
cleanup_old_backups(dir, settings) ==
    LET backups == get_backup_list(dir)
        doomed == IF Len(backups) > settings.max_backups
                  THEN {PathOf(backups[k]) : k \in (settings.max_backups + 1)..Len(backups)}
                  ELSE {}
    IN  SelectSeq(dir, LAMBDA f : PathOf(f) \notin doomed)

\* create_backup: the database file is zipped or copied under a name made
\* of the custom name and the second of the clock, then old backups are
\* cleaned; a file of that name is overwritten
create_backup(dir, content, settings, custom_name, clock) ==
    LET backup_name == IF custom_name # NoName THEN custom_name ELSE DefaultName
        written == [prefix |-> backup_name, stamp |-> clock,
                    suffix |-> IF settings.compression THEN ".zip" ELSE ".db",
                    content |-> content]
        others == SelectSeq(dir, LAMBDA f : PathOf(f) # PathOf(written))
    IN  [path |-> PathOf(written),
         dir |-> cleanup_old_backups(Append(others, written), settings)]

\* restore_backup that replaces the database without saving it first
RestoreWithoutSaving(dir, content, settings, backup_path, clock) ==
    IF ~Exists(dir, backup_path)
    THEN [raised |-> TRUE, exc |-> "FileNotFoundError", dir |-> dir, content |-> content,
          current_backup |-> MissingPath]
    ELSE [raised |-> FALSE, exc |-> "none", dir |-> dir, current_backup |-> MissingPath,
          content |-> The({f.content : f \in {dir[i] : i \in {j \in 1..Len(dir) :
                                                      PathOf(dir[j]) = backup_path}}})]

\* restore_backup: a path that names no file raises; otherwise the current
\* database is backed up as pre_restore, then the database file is replaced
\* by what the backup holds (opening a backup the cleanup has just unlinked
\* raises)
restore_backup(dir, content, settings, backup_path, clock) ==
    IF ~Exists(dir, backup_path)
    THEN [raised |-> TRUE, exc |-> "FileNotFoundError", dir |-> dir, content |-> content,
          current_backup |-> MissingPath]
    ELSE LET current_backup == create_backup(dir, content, settings, "pre_restore", clock)
             saved == current_backup.dir
         IN  IF ~Exists(saved, backup_path)
             THEN [raised |-> TRUE, exc |-> "FileNotFoundError", dir |-> saved,
                   content |-> content, current_backup |-> current_backup.path]
             ELSE [raised |-> FALSE, exc |-> "none", dir |-> saved,
                   current_backup |-> current_backup.path,
                   content |-> The({f.content : f \in {saved[i] : i \in {j \in 1..Len(saved) :
                                                         PathOf(saved[j]) = backup_path}}})]

\* What the backup manager call made last returned
BackupResult(op) ==
    [op |-> op, raised |-> FALSE, exc |-> "none", path |-> MissingPath,
     custom_name |-> NoName, current_backup |-> MissingPath]

\* scheduler_thread.is_alive()
IsAlive(t) == t # NoThread /\ threads[t] # "dead"

\* BackupManager(): the settings are loaded and, with automatic backups
\* enabled, the scheduler is started with its first thread
InitBackup ==
    /\ ImporterAtRest
    /\ arg = NoArg
    /\ SessionAtRest
    /\ PaymentAtRest
    /\ UsersAtRest
    /\ SalesAtRest
    /\ db_file = 1
    /\ backup_dir = <<>>
    /\ \E exists \in BOOLEAN : \E stored \in SettingsPool :
           backup_settings = load_backup_settings(exists, stored)
    /\ scheduler_running = backup_settings.auto_backup_enabled
    /\ scheduler_thread = IF backup_settings.auto_backup_enabled THEN 1 ELSE NoThread
    /\ threads = IF backup_settings.auto_backup_enabled THEN <<"test">> ELSE <<>>
    /\ jobs = IF backup_settings.auto_backup_enabled THEN 1 ELSE 0
    /\ caller = "idle"
    /\ now = 1
    /\ nBackups = 0
    /\ last = BackupResult("__init__")

\* stop_scheduler up to the join: the flag is lowered and the jobs cleared
StopRequested ==
    /\ scheduler_running' = FALSE
    /\ jobs' = 0

\* start_scheduler after its stop_scheduler call: one job is scheduled, the
\* flag is raised and a new thread is started on _run_scheduler
Launch ==
    /\ jobs' = 1
    /\ scheduler_running' = TRUE
    /\ threads' = Append(threads, "test")
    /\ scheduler_thread' = Len(threads) + 1

\* start_scheduler is called; with a live scheduler thread it waits in join
StartScheduler ==
    /\ caller = "idle"
    /\ Len(threads) < MaxThreads
    /\ IF IsAlive(scheduler_thread)
       THEN /\ StopRequested
            /\ caller' = "start"
            /\ UNCHANGED <<threads, scheduler_thread>>
       ELSE /\ Launch
            /\ UNCHANGED caller
    /\ last' = BackupResult("start_scheduler")
    /\ UNCHANGED <<db_file, backup_dir, backup_settings, now, nBackups>>
    /\ UNCHANGED nonBackupVars

\* stop_scheduler is called; with a live scheduler thread it waits in join
StopScheduler ==
    /\ caller = "idle"
    /\ StopRequested
    /\ caller' = IF IsAlive(scheduler_thread) THEN "stop" ELSE "idle"
    /\ last' = BackupResult("stop_scheduler")
    /\ UNCHANGED <<db_file, backup_dir, backup_settings, scheduler_thread, threads,
                   now, nBackups>>
    /\ UNCHANGED nonBackupVars

\* save_backup_settings: the settings are stored and the scheduler is
\* started or stopped as they say
SaveBackupSettings(settings) ==
    /\ caller = "idle"
    /\ backup_settings' = settings
    /\ IF settings.auto_backup_enabled
       THEN /\ Len(threads) < MaxThreads
            /\ IF IsAlive(scheduler_thread)
               THEN /\ StopRequested
                    /\ caller' = "start"
                    /\ UNCHANGED <<threads, scheduler_thread>>
               ELSE /\ Launch
                    /\ UNCHANGED caller
       ELSE /\ StopRequested
            /\ caller' = IF IsAlive(scheduler_thread) THEN "stop" ELSE "idle"
            /\ UNCHANGED <<threads, scheduler_thread>>
    /\ last' = BackupResult("save_backup_settings")
    /\ UNCHANGED <<db_file, backup_dir, now, nBackups>>
    /\ UNCHANGED nonBackupVars

\* scheduler_thread.join(timeout=2) returns: the thread has ended, or it is
\* in its 30 second sleep and the two seconds are over; start_scheduler
\* then goes on
JoinReturns ==
    /\ caller # "idle"
    /\ threads[scheduler_thread] \in {"dead", "sleep"}
    /\ IF caller = "start"
       THEN Launch
       ELSE UNCHANGED <<jobs, scheduler_running, threads, scheduler_thread>>
    /\ caller' = "idle"
    /\ last' = BackupResult("join")
    /\ UNCHANGED <<db_file, backup_dir, backup_settings, now, nBackups>>
    /\ UNCHANGED nonBackupVars

\* _run_scheduler: the loop condition is tested
ThreadTest(t) ==
    /\ threads[t] = "test"
    /\ threads' = [threads EXCEPT ![t] = IF scheduler_running THEN "pending" ELSE "dead"]
    /\ UNCHANGED last
    /\ UNCHANGED <<db_file, backup_dir, backup_settings, scheduler_running,
                   scheduler_thread, jobs, caller, now, nBackups>>
    /\ UNCHANGED nonBackupVars

\* _run_scheduler: schedule.run_pending() runs the job when it is due
\* (_scheduled_backup: create_backup("auto")), then the thread sleeps
ThreadRunPending(t, due) ==
    /\ threads[t] = "pending"
    /\ threads' = [threads EXCEPT ![t] = "sleep"]
    /\ IF due /\ jobs > 0
       THEN /\ nBackups < MaxBackups
            /\ \E r \in {create_backup(backup_dir, db_file, backup_settings, "auto", now)} :
                   /\ backup_dir' = r.dir
                   /\ last' = [BackupResult("_scheduled_backup") EXCEPT
                                   !.path = r.path, !.custom_name = "auto"]
            /\ nBackups' = nBackups + 1
       ELSE /\ last' = BackupResult("run_pending")
            /\ UNCHANGED <<backup_dir, nBackups>>
    /\ UNCHANGED <<db_file, backup_settings, scheduler_running, scheduler_thread,
                   jobs, caller, now>>
    /\ UNCHANGED nonBackupVars

\* _run_scheduler: time.sleep(30) is over
ThreadWake(t) ==
    /\ threads[t] = "sleep"
    /\ threads' = [threads EXCEPT ![t] = "test"]
    /\ UNCHANGED last
    /\ UNCHANGED <<db_file, backup_dir, backup_settings, scheduler_running,
                   scheduler_thread, jobs, caller, now, nBackups>>
    /\ UNCHANGED nonBackupVars

\* The test button and the manual backup of the settings dialog
CreateBackup(custom_name) ==
    /\ caller = "idle"
    /\ nBackups < MaxBackups
    /\ nBackups' = nBackups + 1
    /\ \E r \in {create_backup(backup_dir, db_file, backup_settings, custom_name, now)} :
           /\ backup_dir' = r.dir
           /\ last' = [BackupResult("create_backup") EXCEPT
                           !.path = r.path, !.custom_name = custom_name]
    /\ UNCHANGED <<db_file, backup_settings, scheduler_running, scheduler_thread,
                   threads, jobs, caller, now>>
    /\ UNCHANGED nonBackupVars

\* The restore button of the settings dialog
RestoreBackup(backup_path) ==
    /\ caller = "idle"
    /\ nBackups < MaxBackups
    /\ nBackups' = nBackups + 1
    /\ \E r \in {restore_backup(backup_dir, db_file, backup_settings, backup_path, now)} :
           /\ backup_dir' = r.dir
           /\ db_file' = r.content
           /\ last' = [BackupResult("restore_backup") EXCEPT
                           !.path = backup_path, !.raised = r.raised, !.exc = r.exc,
                           !.current_backup = r.current_backup]
    /\ UNCHANGED <<backup_settings, scheduler_running, scheduler_thread,
                   threads, jobs, caller, now>>
    /\ UNCHANGED nonBackupVars

\* The application commits a change to the database file
WriteDatabase ==
    /\ db_file < MaxVersion
    /\ db_file' = db_file + 1
    /\ UNCHANGED last
    /\ UNCHANGED <<backup_dir, backup_settings, scheduler_running, scheduler_thread,
                   threads, jobs, caller, now, nBackups>>
    /\ UNCHANGED nonBackupVars

\* A second passes on the system clock
Tick ==
    /\ now < MaxClock
    /\ now' = now + 1
    /\ UNCHANGED last
    /\ UNCHANGED <<db_file, backup_dir, backup_settings, scheduler_running,
                   scheduler_thread, threads, jobs, caller, nBackups>>
    /\ UNCHANGED nonBackupVars

NextBackup ==
    \/ StartScheduler
    \/ StopScheduler
    \/ \E settings \in SettingsPool : SaveBackupSettings(settings)
    \/ JoinReturns
    \/ \E t \in 1..Len(threads) : ThreadTest(t)
    \/ \E t \in 1..Len(threads) : \E due \in BOOLEAN : ThreadRunPending(t, due)
    \/ \E t \in 1..Len(threads) : ThreadWake(t)
    \/ \E custom_name \in {NoName} \cup CustomNames : CreateBackup(custom_name)
    \/ \E backup_path \in {PathOf(backup_dir[i]) : i \in 1..Len(backup_dir)} \cup {MissingPath} :
           RestoreBackup(backup_path)
    \/ WriteDatabase
    \/ Tick

SpecBackup == InitBackup /\ [][NextBackup]_vars

---------------------------------------------------------------------------
(* The till: the product grid, the cart and the completion of a sale *)

\* What the till handler called last did
SalesResult(op) == [op |-> op, outcome |-> "done"]

\* A cart line: SaleItem(product, quantity); shared tells that the Product
\* object of the line is still the one the product cache and the grid hold
SaleItem(product, quantity) == [product |-> product, quantity |-> quantity, shared |-> TRUE]

\* sum(item.product.price * item.quantity for item in cart_items); the
\* prices of the products below are whole numbers of dirhams
RECURSIVE CartTotal(_)
CartTotal(items) ==
    IF items = <<>> THEN 0
    ELSE items[1].product.price.m * items[1].quantity + CartTotal(Tail(items))

\* add_to_cart: the line of that product id gets one more, else a new line
add_to_cart(items, product) ==
    IF \E k \in 1..Len(items) : items[k].product.id = product.id
    THEN LET first == CHOOSE k \in 1..Len(items) :
                          /\ items[k].product.id = product.id
                          /\ \A j \in 1..(k - 1) : items[j].product.id # product.id
         IN  [items EXCEPT ![first].quantity = @ + 1]
    ELSE Append(items, SaleItem(product, 1))

\* remove_cart_item: cart_items.pop(item_index), item_index counted from 0
remove_cart_item(items, item_index) ==
    IF 0 <= item_index /\ item_index < Len(items)
    THEN SubSeq(items, 1, item_index) \o SubSeq(items, item_index + 2, Len(items))
    ELSE items

\* update_item_quantity: the line is removed when the new quantity is not
\* positive, changed when the stock of its product covers the new quantity,
\* and left alone (with a warning) otherwise
update_item_quantity(items, item_index, change) ==
    IF 0 <= item_index /\ item_index < Len(items)
    THEN LET item == items[item_index + 1]
             new_quantity == item.quantity + change
         IN  IF new_quantity <= 0
             THEN [items |-> remove_cart_item(items, item_index), outcome |-> "removed"]
             ELSE IF new_quantity <= item.product.stock_quantity
             THEN [items |-> [items EXCEPT ![item_index + 1].quantity = new_quantity],
                   outcome |-> "done"]
             ELSE [items |-> items, outcome |-> "warning"]
    ELSE [items |-> items, outcome |-> "ignored"]

\* update_product_stock: UPDATE products SET stock_quantity = ? WHERE id = ?
update_product_stock(rows, product_id, new_stock) ==
    [k \in 1..Len(rows) |->
        IF rows[k].id = product_id
        THEN [rows[k] EXCEPT !.stock_quantity = new_stock]
        ELSE rows[k]]

\* The stock loop of complete_sale on the database: every line writes the
\* stock its Product object holds less the quantity sold
RECURSIVE SellItems(_, _)
SellItems(rows, items) ==
    IF items = <<>> THEN rows
    ELSE SellItems(update_product_stock(rows, items[1].product.id,
                       items[1].product.stock_quantity - items[1].quantity),
                   Tail(items))

\* The stock loop of complete_sale on the Product objects: the objects of
\* the list that the lines share get the new stock as well
SoldFrom(list, items) ==
    [k \in 1..Len(list) |->
        IF \E i \in 1..Len(items) : items[i].shared /\ items[i].product.id = list[k].id
        THEN LET item == items[CHOOSE i \in 1..Len(items) :
                                   items[i].shared /\ items[i].product.id = list[k].id]
             IN  [list[k] EXCEPT !.stock_quantity = item.product.stock_quantity - item.quantity]
        ELSE list[k]]

\* The lines of the cart once get_all_products has built new Product objects
Unshared(items) == [k \in 1..Len(items) |-> [items[k] EXCEPT !.shared = FALSE]]

\* load_products: the grid shows what get_all_products returns
load_products(rows, c, items) ==
    LET r == get_all_products(rows, c)
    IN  [products |-> r.products, cache |-> r.cache,
         items |-> IF c.has /\ ~c.expired THEN items ELSE Unshared(items)]

\* Payments the payment window hands over: Payment(method, amount) marked
\* completed
PaymentsMade ==
    [method : {"cash", "card"}, amount : {5, 20}, status : {"completed"},
     change_amount : {0}]

\* The administrator after a successful login, and the session row of it
LoggedInAdmin == authenticate(<<DefaultAdmin>>, "admin", pAdmin123)
AdminSession == [id |-> 1, user_id |-> DefaultAdmin.id, logout_time |-> NoTime]

\* POSApplication(): two products on sale, the grid loaded, the cart empty,
\* the administrator logged in or nobody
InitSales ==
    /\ file \in {f \in Files : f.status = "missing"}
    /\ db \in {<<[ProductA EXCEPT !.stock_quantity = n], ProductB>> : n \in 1..MaxQuantity}
    /\ nextId = FirstFreeId
    /\ nImports = 0
    /\ nDeletes = 0
    /\ arg = NoArg
    /\ SessionAtRest
    /\ PaymentAtRest
    /\ BackupAtRest
    /\ \/ UsersAtRest
       \/ /\ users = LoggedInAdmin.users
          /\ current_user = LoggedInAdmin.user
          /\ user_sessions = <<AdminSession>>
          /\ user_session = AdminSession
          /\ nSessions = 1
          /\ activities = log_activity(<<>>, DefaultAdmin.id, "LOGIN")
    /\ \E r \in {load_products(db, ClearedCache, <<>>)} :
           /\ cache = r.cache
           /\ app_products = r.products
    /\ cart_items = <<>>
    /\ sales = <<>>
    /\ last = SalesResult("__init__")

\* The state the till handlers below leave alone
nonSalesVars ==
    <<file, nextId, nImports, nDeletes, arg, sessionVars, nCalculations,
      users, user_sessions, nSessions, current_user, user_session, backupVars>>

\* No line of the cart is beyond the quantity explored
WithinBounds(items) == \A k \in 1..Len(items) : items[k].quantity <= MaxQuantity

\* A product tile of the grid is clicked: add_to_cart(product)
AddToCart(i) ==
    /\ i \in 1..Len(app_products)
    /\ \E added \in {add_to_cart(cart_items, app_products[i])} :
           /\ WithinBounds(added)
           /\ cart_items' = added
    /\ last' = SalesResult("add_to_cart")
    /\ UNCHANGED <<db, cache, payment, activities, app_products, sales>>
    /\ UNCHANGED nonSalesVars

\* The scanner dialog delivers a barcode: add_product_by_barcode(barcode)
AddProductByBarcode(barcode) ==
    /\ LET Found(i) == /\ app_products[i].barcode # None
                       /\ app_products[i].barcode # <<>>
                       /\ StrLower(StrStrip(app_products[i].barcode))
                              = StrLower(StrStrip(barcode))
       IN  IF StrStrip(barcode) = <<>>
           THEN /\ last' = [SalesResult("add_product_by_barcode") EXCEPT !.outcome = "ignored"]
                /\ UNCHANGED cart_items
           ELSE IF \E i \in 1..Len(app_products) : Found(i)
           THEN \E added \in {add_to_cart(cart_items,
                               app_products[CHOOSE i \in 1..Len(app_products) :
                                                Found(i) /\ \A j \in 1..(i - 1) : ~Found(j)])} :
                /\ WithinBounds(added)
                /\ cart_items' = added
                /\ last' = SalesResult("add_product_by_barcode")
           ELSE /\ last' = [SalesResult("add_product_by_barcode") EXCEPT !.outcome = "not_found"]
                /\ UNCHANGED cart_items
    /\ UNCHANGED <<db, cache, payment, activities, app_products, sales>>
    /\ UNCHANGED nonSalesVars

\* The plus or minus button of a cart line: update_item_quantity
UpdateItemQuantity(item_index, change) ==
    /\ \E r \in {update_item_quantity(cart_items, item_index, change)} :
           /\ cart_items' = r.items
           /\ last' = [SalesResult("update_item_quantity") EXCEPT !.outcome = r.outcome]
    /\ UNCHANGED <<db, cache, payment, activities, app_products, sales>>
    /\ UNCHANGED nonSalesVars

\* The button that shows all products: load_products
ShowAllProducts ==
    /\ \E r \in {load_products(db, cache, cart_items)} :
           /\ cache' = r.cache
           /\ app_products' = r.products
           /\ cart_items' = r.items
    /\ last' = SalesResult("load_products")
    /\ UNCHANGED <<db, payment, activities, sales>>
    /\ UNCHANGED nonSalesVars

\* The payment window confirms: complete_sale(payment)
CompleteSale(p) ==
    /\ Len(sales) < MaxSales
    /\ IF cart_items = <<>>
       THEN /\ last' = [SalesResult("complete_sale") EXCEPT !.outcome = "cart_empty"]
            /\ UNCHANGED <<db, cache, payment, activities, app_products, cart_items, sales>>
       ELSE IF p.amount < CartTotal(cart_items)
       THEN /\ last' = [SalesResult("complete_sale") EXCEPT !.outcome = "insufficient"]
            /\ UNCHANGED <<db, cache, payment, activities, app_products, cart_items, sales>>
       ELSE \E total \in {CartTotal(cart_items)} :
            \E paid \in {IF is_cash_payment(p)
                         THEN [p EXCEPT !.change_amount = calculate_change(p, total)]
                         ELSE p} :
            \E r \in {load_products(SellItems(db, cart_items),
                                    [cache EXCEPT !.products = SoldFrom(@, cart_items)],
                                    cart_items)} :
                /\ payment' = paid
                /\ sales' = Append(sales,
                       [id |-> Len(sales) + 1,
                        items |-> [k \in 1..Len(cart_items) |->
                                      [product_id |-> cart_items[k].product.id,
                                       quantity |-> cart_items[k].quantity]],
                        total |-> total,
                        cashier_id |-> IF current_user # NoUser THEN current_user.id ELSE 1])
                /\ db' = SellItems(db, cart_items)
                /\ cache' = r.cache
                /\ app_products' = r.products
                /\ activities' = IF current_user # NoUser
                                 THEN log_activity(activities, current_user.id, "SALE_COMPLETED")
                                 ELSE activities
                /\ cart_items' = <<>>
                /\ last' = SalesResult("complete_sale")
    /\ UNCHANGED nonSalesVars

\* Barcodes the scanner delivers: that of product B as printed and as typed,
\* one of no product, a blank one
Scanned == {sX1, <<" ", "x", "1">>, s10, <<" ">>}

NextSales ==
    \/ \E i \in 1..Len(app_products) : AddToCart(i)
    \/ \E barcode \in Scanned : AddProductByBarcode(barcode)
    \/ \E item_index \in 0..1 : \E change \in {-1, 1} : UpdateItemQuantity(item_index, change)
    \/ ShowAllProducts
    \/ CacheTimeout
    \/ \E p \in PaymentsMade : CompleteSale(p)

SpecSales == InitSales /\ [][NextSales]_vars

---------------------------------------------------------------------------
(* Notions the properties below are stated with *)

\* A row with no cell, or whose cells are all empty after trimming
FullyBlank(row) == \A j \in 1..Len(row) : StrStrip(row[j]) = <<>>

\* The run reads data rows: the file opens, has a header row, and its name
\* column resolves
ReadsRows(f) == f.status = "ok" /\ ColumnsOf[f.headers].name # NoColumn

FileLevelError(errors) == \E k \in 1..Len(errors) : errors[k].row = 0

ErrorsOfRow(errors, row_num) == {k \in 1..Len(errors) : errors[k].row = row_num}

\* The states of an import run of f from `store`, before and after each row
RECURSIVE RowStates(_, _, _, _, _)
RowStates(f, idx, update_existing, i, st) ==
    IF i > Len(f.rows) THEN <<st>>
    ELSE <<st>> \o RowStates(f, idx, update_existing, i + 1,
                             ImportRow(f.rows[i], i + 1, idx, update_existing, st).st)

ImportTrace(f, update_existing, store) ==
    RowStates(f, ColumnsOf[f.headers], update_existing, 1, ImportStart(store))

\* A row that passes the length test, has a name and passes validation
ValidRow(row, idx) ==
    /\ Len(row) > MaxIdx(idx)
    /\ ImportRowData(row, idx).name # <<>>
    /\ validate_product_data(ImportRowData(row, idx)) = <<>>

\* The table holds a record with the field values of the row
HoldsRecord(rows, id, d) ==
    \E k \in 1..Len(rows) :
        /\ rows[k].id = id
        /\ rows[k].name = d.name /\ rows[k].description = d.description
        /\ rows[k].price = d.price /\ rows[k].category = d.category
        /\ rows[k].stock_quantity = d.stock_quantity
        /\ rows[k].cost_price = d.cost_price
        /\ (d.barcode # None => rows[k].barcode = d.barcode)

\* This step is a call of import_csv_products
ImportStep == nImports' = nImports + 1

\* This step is a call of preview_csv_import
PreviewStep == last.op = "none" /\ last'.op = "preview"

---------------------------------------------------------------------------
(* C1: preview_csv_import never silently drops a data row: when the name   *)
(* column resolves and the cap is not reached, every data row that is not  *)
(* fully blank yields exactly one returned candidate (valid, or invalid    *)
(* with a non-empty errors list), a row with an empty name cell and a row  *)
(* with too few cells included.                                            *)
C1_PreviewDropsNoRow ==
    (last.op = "preview" /\ ReadsRows(file)
        /\ Len(last.preview_data) < last.max_preview)
    => \A i \in 1..Len(file.rows) :
           ~FullyBlank(file.rows[i])
           => /\ Cardinality({k \in 1..Len(last.preview_data) :
                                 last.preview_data[k].data.row_number = i + 1}) = 1
              /\ \A k \in 1..Len(last.preview_data) :
                     last.preview_data[k].has_errors
                     => last.preview_data[k].errors # <<>>

(* C2: for every valid row processed by import_csv_products the lookup     *)
(* (barcode first, then name) decides the action: found and update_existing *)
(* - the record is overwritten and saved and updated_count grows by one;   *)
(* found and not update_existing - nothing is written, no counter changes; *)
(* not found - exactly one record is created and imported_count grows by   *)
(* one.                                                                    *)
C2_RowAction(row, update_existing, s, t) ==
    LET d == ImportRowData(row, ColumnsOf[file.headers])
        ex == FindExisting(s, d)
    IN  IF ex.by # "none" /\ update_existing
        THEN /\ t.updated_count = s.updated_count + 1
             /\ t.imported_count = s.imported_count
             /\ Len(t.db) = Len(s.db)
             /\ HoldsRecord(t.db, ex.product.id, d)
        ELSE IF ex.by # "none"
        THEN /\ t.db = s.db
             /\ t.updated_count = s.updated_count
             /\ t.imported_count = s.imported_count
        ELSE /\ t.imported_count = s.imported_count + 1
             /\ t.updated_count = s.updated_count
             /\ Len(t.db) = Len(s.db) + 1
             /\ SubSeq(t.db, 1, Len(s.db)) = s.db
             /\ HoldsRecord(t.db, s.nextId, d)

C2_LookupDecidesAction ==
    [][(ImportStep /\ ReadsRows(file))
       => LET trace == ImportTrace(file, last'.update_existing, Store)
          IN  \A i \in 1..Len(file.rows) :
                  ValidRow(file.rows[i], ColumnsOf[file.headers])
                  => C2_RowAction(file.rows[i], last'.update_existing,
                                  trace[i], trace[i + 1])]_vars

(* C3: with update_existing false, importing the same file a second time   *)
(* returns imported_count = 0 and updated_count = 0 and leaves the product *)
(* store as the first run left it.                                         *)
C3_SecondRunIdle ==
    [][(last.op = "import" /\ ~last.update_existing
          /\ ImportStep /\ ~last'.update_existing)
       => (last'.imported_count = 0 /\ last'.updated_count = 0 /\ db' = db)]_vars

(* C4: a persistence exception raised while handling one row is caught and *)
(* recorded as one error string tagged with that row's number, and the     *)
(* rows before and after it are created or updated exactly as they would   *)
(* be if the failing row were absent from the file.                        *)
WithoutRow(f, i) ==
    [f EXCEPT !.rows = SubSeq(@, 1, i - 1) \o SubSeq(@, i + 1, Len(@))]

\* The errors of a run with those of row row_num removed and the row
\* numbers after it moved up by one
ErrorsWithoutRow(errors, row_num) ==
    LET Other(e) == e.row # row_num
        kept == SelectSeq(errors, Other)
    IN  [k \in 1..Len(kept) |->
            IF kept[k].row > row_num THEN [kept[k] EXCEPT !.row = @ - 1] ELSE kept[k]]

C4_FailedRowIsolated ==
    [][(ImportStep /\ ReadsRows(file))
       => LET trace == ImportTrace(file, last'.update_existing, Store)
          IN  \A i \in 1..Len(file.rows) :
                  (\E k \in ErrorsOfRow(trace[i + 1].errors, i + 1) :
                       trace[i + 1].errors[k].msg = ErrProcessing)
                  => /\ Cardinality(ErrorsOfRow(last'.errors, i + 1)) = 1
                     /\ LET other == import_csv_products(WithoutRow(file, i),
                                                         last'.update_existing, Store).st
                        IN  /\ other.db = db'
                            /\ other.imported_count = last'.imported_count
                            /\ other.updated_count = last'.updated_count
                            /\ other.errors = ErrorsWithoutRow(last'.errors, i + 1)]_vars

C7_PreviewWithinCap ==
    last.op = "preview"
    => Len(last.preview_data) <= (IF last.max_preview > 0 THEN last.max_preview ELSE 0)

C7_Witness ==
    /\ last.op = "preview" /\ last.max_preview > 0
    /\ Len(last.preview_data) = last.max_preview
    /\ Len(preview_csv_import(file, MaxPreview).preview_data) > last.max_preview

(* C8: import_csv_products accounts for every data row that is not fully   *)
(* blank: each ends in exactly one of created, updated, skipped because it *)
(* exists, or at least one error string tagged with its row number.        *)
C8_RowAccounted(row, row_num, update_existing, s, t) ==
    LET idx == ColumnsOf[file.headers]
        created == t.imported_count = s.imported_count + 1
        updated == t.updated_count = s.updated_count + 1
        skipped == /\ ValidRow(row, idx)
                   /\ FindExisting(s, ImportRowData(row, idx)).by # "none"
                   /\ ~update_existing
                   /\ t.db = s.db
                   /\ t.imported_count = s.imported_count
                   /\ t.updated_count = s.updated_count
        failed == ErrorsOfRow(t.errors, row_num) # {}
        Count(b) == IF b THEN 1 ELSE 0
    IN  Count(created) + Count(updated) + Count(skipped) + Count(failed) = 1

C8_EveryRowAccounted ==
    [][(ImportStep /\ ReadsRows(file))
       => LET trace == ImportTrace(file, last'.update_existing, Store)
          IN  \A i \in 1..Len(file.rows) :
                  ~FullyBlank(file.rows[i])
                  => C8_RowAccounted(file.rows[i], i + 1, last'.update_existing,
                                     trace[i], trace[i + 1])]_vars

(* C9: find_column_index returns the index of the leftmost header that     *)
(* case-insensitively equals or contains the earliest alias, in list       *)
(* order, that matches any header; it returns None iff no alias matches.   *)
C9_Matches(alias, header) == StrContains(StrLower(header), StrLower(alias))

C9_AliasPriority ==
    last.op = "find"
    => LET aliases == FieldMappings(last.format_detected, last.field)
           headers == file.headers
           Matched(m) == \E i \in 1..Len(headers) : C9_Matches(aliases[m], headers[i])
       IN  IF \A m \in 1..Len(aliases) : ~Matched(m)
           THEN last.index = NoColumn
           ELSE \E m \in 1..Len(aliases) :
                    /\ Matched(m)
                    /\ \A n \in 1..(m - 1) : ~Matched(n)
                    /\ last.index >= 0 /\ last.index < Len(headers)
                    /\ C9_Matches(aliases[m], headers[last.index + 1])
                    /\ \A j \in 1..last.index : ~C9_Matches(aliases[m], headers[j])

\* a header matching a later alias stands left of the header matching the
\* earliest alias, and the resolver picks the latter
C9_Witness ==
    /\ last.op = "find" /\ last.format_detected = "woocommerce" /\ last.field = "name"
    /\ Len(file.headers) >= 2
    /\ file.headers[1] = hName /\ file.headers[2] = hNom
    /\ last.index = 1

(* C10: detect_csv_format returns 'woocommerce' iff one of UGS, Nom,       *)
(* Tarif régulier, Catégories is a header cell verbatim, and 'generic'     *)
(* otherwise.                                                              *)
C10_Indicators ==
    { <<"U","G","S">>, <<"N","o","m">>,
      <<"T","a","r","i","f"," ","r","é","g","u","l","i","e","r">>,
      <<"C","a","t","é","g","o","r","i","e","s">> }

C10_DetectByIndicator ==
    last.op = "detect"
    => /\ last.format_detected \in {"woocommerce", "generic"}
       /\ last.format_detected = "woocommerce"
          <=> \E i \in 1..Len(file.headers) : file.headers[i] \in C10_Indicators

\* a header row whose only near-indicator differs in case is generic
C10_Witness ==
    /\ last.op = "detect" /\ last.format_detected = "generic"
    /\ \E i \in 1..Len(file.headers) : file.headers[i] = hNomLower

(* C11: in preview and in commit a candidate's category is the literal     *)
(* 'Uncategorized' whenever the category cell is empty or whitespace only  *)
(* or the category column is absent; no candidate and no record written    *)
(* carries an empty category string.                                       *)
C11_CategoryOf(row) ==
    LET idx == ColumnsOf[file.headers].category
    IN  IF idx = NoColumn \/ idx >= Len(row) \/ StrStrip(row[idx + 1]) = <<>>
        THEN Uncategorized
        ELSE StrStrip(row[idx + 1])

C11_CategoryDefaults ==
    [][/\ PreviewStep
          => \A k \in 1..Len(last'.preview_data) :
                 LET c == last'.preview_data[k].data
                 IN  /\ c.category # <<>>
                     /\ c.category = C11_CategoryOf(file.rows[c.row_number - 1])
       /\ ImportStep
          => \A k \in 1..Len(db') :
                 (\A j \in 1..Len(db) : db[j] # db'[k]) => db'[k].category # <<>>]_vars

(* C12: clean_price_value performs no sign correction: for an input that   *)
(* is a minus sign followed by digits the result is the corresponding      *)
(* negative number, which the validator then rejects with the price rule.  *)
C12_MinusDigits(s) ==
    /\ Len(s) >= 2 /\ s[1] = "-"
    /\ \A i \in 2..Len(s) : IsDigit(s[i])

C12_NegativeStaysNegative ==
    (last.op = "clean_price" /\ C12_MinusDigits(arg.value))
    => /\ last.price = [m |-> 0 - DigitsToInt(Tail(arg.value)), e |-> 0]
       /\ validate_product_data([name |-> sA, price |-> last.price]) = <<ErrPrice>>

(* C13: over strings of digits, commas and periods, clean_price_value      *)
(* removes the commas when a period is present too; with commas only, a    *)
(* single comma followed by exactly 1 or 2 digits is the decimal point and *)
(* in every other case the commas are removed; the result is 0.0 for empty *)
(* input and when the remaining text is not a number.                      *)
C13_Separators(s) == \A i \in 1..Len(s) : IsDigit(s[i]) \/ s[i] \in {",", "."}

C13_Commas(s) == {i \in 1..Len(s) : s[i] = ","}

C13_Periods(s) == {i \in 1..Len(s) : s[i] = "."}

C13_Resolved(s) ==
    IF C13_Commas(s) = {} THEN s
    ELSE IF C13_Periods(s) # {} THEN StrRemove(s, ",")
    ELSE IF /\ Cardinality(C13_Commas(s)) = 1
            /\ \E i \in C13_Commas(s) : Len(s) - i \in {1, 2}
    THEN StrReplace(s, ",", ".")
    ELSE StrRemove(s, ",")

C13_SeparatorRules ==
    (last.op = "clean_price" /\ arg.value # None /\ C13_Separators(arg.value))
    => LET number == ParseFloat(C13_Resolved(arg.value))
       IN  last.price = IF arg.value = <<>> \/ ~number.ok THEN Zero ELSE number.value

\* "1,000" is one thousand and "1,50" is one and a half
C13_Witness ==
    /\ last.op = "clean_price"
    /\ arg.value = <<"1", ",", "0", "0", "0">>
    /\ last.price = [m |-> 1000, e |-> 0]

(* C14: validate_product_data checks its three rules independently: the    *)
(* list holds the name-required error iff the name is empty after          *)
(* trimming, the price error iff price <= 0, the too-long error iff the    *)
(* name exceeds 255 characters, and nothing else; the flag is true iff the *)
(* list is empty.  A preview candidate with an errors entry has a          *)
(* non-empty one.                                                          *)
C14_Has(errors, msg) == \E k \in 1..Len(errors) : errors[k] = msg

C14_RulesIndependent ==
    /\ last.op = "validate"
       => /\ C14_Has(last.errors, ErrNameRequired)
             <=> \A i \in 1..Len(arg.product_data.name) : arg.product_data.name[i] = " "
          /\ C14_Has(last.errors, ErrPrice) <=> arg.product_data.price.m <= 0
          /\ C14_Has(last.errors, ErrNameTooLong) <=> Len(arg.product_data.name) > 255
          /\ \A k \in 1..Len(last.errors) :
                 /\ last.errors[k] \in {ErrNameRequired, ErrPrice, ErrNameTooLong}
                 /\ \A j \in 1..(k - 1) : last.errors[j] # last.errors[k]
          /\ last.is_valid <=> last.errors = <<>>
    /\ last.op = "preview"
       => \A k \in 1..Len(last.preview_data) :
              LET c == last.preview_data[k]
              IN  /\ c.has_errors => c.errors # <<>>
                  /\ c.has_errors <=> validate_product_data(c.data) # <<>>

\* a blank name with a price of zero: both violations are reported together
C14_Witness ==
    /\ last.op = "validate"
    /\ arg.product_data.name = <<" ">> /\ arg.product_data.price = Zero
    /\ Len(last.errors) = 2 /\ ~last.is_valid

(* C15: clean_barcode_value returns None iff the input is missing or its   *)
(* whitespace-trimmed form has fewer than 2 characters; otherwise it       *)
(* returns exactly the trimmed input, every character kept in place.       *)
C15_IsTrimOf(t, s) ==
    \E a \in 1..Len(s) : \E b \in a..Len(s) :
        /\ t = SubSeq(s, a, b)
        /\ s[a] # " " /\ s[b] # " "
        /\ \A i \in 1..(a - 1) : s[i] = " "
        /\ \A i \in (b + 1)..Len(s) : s[i] = " "

C15_BarcodeKeptVerbatim ==
    last.op = "clean_barcode"
    => LET short == \/ arg.value = None
                    \/ \A t \in {SubSeq(arg.value, a, b) :
                                     a \in 1..Len(arg.value), b \in 1..Len(arg.value)} :
                           C15_IsTrimOf(t, arg.value) => Len(t) < 2
       IN  /\ last.barcode = None <=> short
           /\ ~short => C15_IsTrimOf(last.barcode, arg.value)

\* punctuation and a non-ASCII letter pass through, the padding does not
C15_Witness ==
    /\ last.op = "clean_barcode"
    /\ arg.value = <<" ", "é", "-", " ">>
    /\ last.barcode = <<"é", "-">>

(* C16: clean_stock_value is total and returns a non-negative integer: the *)
(* number formed by the input's digit characters in order, every other     *)
(* character dropped, and 0 when the input is missing, blank or holds no   *)
(* digit.                                                                  *)
RECURSIVE C16_Number(_, _)
C16_Number(s, acc) ==
    IF s = <<>> THEN acc
    ELSE IF Head(s) \in {"0","1","2","3","4","5","6","7","8","9"}
    THEN C16_Number(Tail(s), 10 * acc
                             + (CHOOSE d \in 0..9 :
                                    <<"0","1","2","3","4","5","6","7","8","9">>[d + 1] = Head(s)))
    ELSE C16_Number(Tail(s), acc)

C16_DigitsOnly ==
    last.op = "clean_stock"
    => /\ last.stock \in Nat
       /\ last.stock = IF arg.value = None THEN 0 ELSE C16_Number(arg.value, 0)

\* the unit is dropped: '12 units' is 12
C16_Witness ==
    /\ last.op = "clean_stock"
    /\ arg.value = <<"1","2"," ","u","n","i","t","s">>
    /\ last.stock = 12

(* C17: on one SessionManager, within one day, needs_cash_drawer_opening
   answers False at every point after a start_session and before the next
   end_session, and True at every point after an end_session and before the
   next start_session *)
PromptAnswer == needs_cash_drawer_opening(logout_flag, session_data, current_session).result

C17_PromptFollowsCycle ==
    /\ lastHere = "start" => ~PromptAnswer
    /\ lastHere = "end" => PromptAnswer
    /\ last.op = "needs_cash_drawer_opening" /\ lastHere = "start" => ~last.result
    /\ last.op = "needs_cash_drawer_opening" /\ lastHere = "end" => last.result

\* The prompt was asked for after a logout was followed by a second start
C17_Witness ==
    /\ last.op = "needs_cash_drawer_opening"
    /\ lastHere = "start"
    /\ session_data.restart_time # NoTime
    /\ ~last.result

(* C18: a SessionManager constructed anew (same files, same day) answers True
   when nothing was stored for today and after a logout by any earlier
   instance, and False when the last session operation of the day was a
   start_session *)
C18_PromptSurvivesRestart ==
    lastHere = "none" =>
        /\ lastToday = "none" => PromptAnswer
        /\ lastToday = "end" => PromptAnswer
        /\ lastToday = "start" => ~PromptAnswer
        /\ last.op = "needs_cash_drawer_opening" =>
               (last.result <=> lastToday # "start")

\* The application was closed with the session open, started again, and the
\* new instance asked for the prompt
C18_Witness ==
    /\ last.op = "needs_cash_drawer_opening"
    /\ lastHere = "none"
    /\ lastToday = "start"
    /\ ~last.result
    /\ current_session # NoSession

(* C19: calculate_change(total_due) stores and returns amount - total_due
   when the method is cash and amount > total_due, and 0 in every other case;
   change_amount is never negative once calculate_change has been called *)
C19_ChangeRule ==
    /\ last.op = "calculate_change" =>
           /\ last.result = payment.change_amount
           /\ payment.method = "cash" /\ payment.amount > last.total_due
                  => last.result = payment.amount - last.total_due
           /\ payment.method # "cash" => last.result = 0
           /\ payment.amount = last.total_due => last.result = 0
           /\ payment.amount < last.total_due => last.result = 0
    /\ nCalculations > 0 => payment.change_amount >= 0

\* A second calculation, against a larger total, took back the change the
\* first one had given
C19_Witness ==
    /\ last.op = "calculate_change"
    /\ nCalculations = 2
    /\ payment.method = "cash"
    /\ 0 < payment.amount /\ payment.amount < last.total_due
    /\ payment.change_amount = 0

(* C20: login returns True, and sets current_user and current_session, only
   if a user of that name exists, is 'active' and the password matches the
   stored salted hash; in every other case it returns False and leaves both
   unchanged.  A successful logout leaves both None and is_logged_in False;
   logout with nobody logged in returns False and changes nothing *)
C20_Matches(password, password_hash) ==
    /\ Len(password_hash) = 2
    /\ password_hash[2] = Sha256(password \o password_hash[1])

C20_Entitled(username, password) ==
    \E k \in 1..Len(users) :
        /\ users[k].username = username
        /\ users[k].status = "active"
        /\ C20_Matches(password, users[k].password_hash)

C20_LoginStep ==
    last'.op = "login" =>
        IF C20_Entitled(last'.username, last'.password)
        THEN last'.result =>
                 /\ current_user'.username = last'.username
                 /\ current_user'.status = "active"
                 /\ user_session' # NoUserSession
                 /\ user_session'.user_id = current_user'.id
        ELSE /\ ~last'.result
             /\ UNCHANGED <<current_user, user_session>>

C20_LogoutStep ==
    last'.op = "logout" =>
        IF current_user # NoUser /\ user_session # NoUserSession
        THEN /\ last'.result
             /\ current_user' = NoUser
             /\ user_session' = NoUserSession
             /\ ~is_logged_in(current_user')
        ELSE /\ ~last'.result
             /\ UNCHANGED userVars

C20_LoginAndLogout == [][C20_LoginStep /\ C20_LogoutStep]_vars

\* The cashier, whose account an administrator had set inactive, was refused
\* with the right password while the administrator stayed logged in
C20_Witness ==
    /\ last.op = "login"
    /\ ~last.result
    /\ last.username = "cashier"
    /\ last.password = pSecret
    /\ \E k \in 1..Len(users) :
           /\ users[k].username = "cashier"
           /\ users[k].status = "inactive"
           /\ C20_Matches(pSecret, users[k].password_hash)
    /\ current_user.username = "admin"
    /\ is_logged_in(current_user)

(* C21: every update_cash_amount(new_amount, ...) call that returns without
   raising has recorded the operation: today's stored session has
   cash_drawer_amount = new_amount and exactly one more cash_transactions
   entry, whose new_balance is new_amount, and get_today_cash_amount returns
   new_amount; also when the session in memory was loaded on an earlier date *)
C21_Recorded ==
    /\ session_data'.present
    /\ session_data'.cash_drawer_amount = last'.amount
    /\ Len(session_data'.cash_transactions) = Len(session_data.cash_transactions) + 1
    /\ session_data'.cash_transactions[Len(session_data'.cash_transactions)].new_balance
           = last'.amount
    /\ get_today_cash_amount(session_data', current_session').amount = last'.amount

C21_UpdateIsRecorded ==
    [][last'.op = "update_cash_amount" /\ ~last'.raised => C21_Recorded]_vars

(* C22: update_cash_amount raises ValueError('No active session found') and
   leaves the session file unchanged whenever today has no stored session or
   today's stored session has been closed by end_session *)
C22_NoOpenSession ==
    \/ ~session_data.present
    \/ session_data.logout_time # NoTime

C22_RaisesWithoutOpenSession ==
    [][last'.op = "update_cash_amount" /\ C22_NoOpenSession =>
           /\ last'.raised
           /\ last'.exc = "ValueError"
           /\ session_data' = session_data]_vars

(* C27: within one day, every transaction recorded in today's
   cash_transactions stays there, in its original order, whatever
   start_session, end_session and update_cash_amount calls follow *)
C27_IsPrefix(old, new) ==
    /\ Len(old) <= Len(new)
    /\ \A k \in 1..Len(old) : new[k] = old[k]

C27_HistoryAppendOnly ==
    [][today' = today =>
           C27_IsPrefix(session_data.cash_transactions,
                        session_data'.cash_transactions)]_vars

(* C23: update_user and remove_user return False and change no row of the
   users, sessions or activities tables unless the user logged in has the
   role ADMIN; change_password does so unless that user is ADMIN or is the
   target; remove_user returns False and deletes nothing when the target is
   the user logged in *)
C23_AdminLoggedIn ==
    /\ current_user # NoUser
    /\ \E k \in 1..Len(users) :
           users[k].id = current_user.id /\ users[k].role = "admin"

C23_Refused ==
    /\ ~last'.result
    /\ UNCHANGED <<users, user_sessions, activities>>

C23_AdminOnlyStep ==
    /\ last'.op \in {"update_user", "remove_user"} /\ ~C23_AdminLoggedIn => C23_Refused
    /\ last'.op = "change_password" /\ ~C23_AdminLoggedIn
           /\ (current_user = NoUser \/ current_user.id # last'.user_id) => C23_Refused
    /\ last'.op = "remove_user" /\ current_user # NoUser
           /\ current_user.id = last'.user_id => C23_Refused

C23_AdminOnly == [][C23_AdminOnlyStep]_vars

(* C29: after any sequence of save_product and delete_product calls,
   get_all_products returns exactly the products that are active in the
   database at the time of the call, none of them deleted or deactivated *)
C29_ActiveInDatabase == OrderByName(SelectSeq(db, LAMBDA r : r.is_active))

C29_CacheCoherent ==
    [][last'.op = "load" =>
           get_all_products(db, cache).products = C29_ActiveInDatabase]_vars

(* C26: for a preview whose cap is at least the number of rows of the file,
   the valid candidates are exactly the rows the import attempts to persist,
   with the same cleaned values, and the invalid candidates are exactly the
   rows for which the import returns 'Row n: ...' errors, with the same row
   numbers and the same errors *)
C26_Candidates == preview_csv_import(file, Len(file.rows)).preview_data

C26_Values(row_num, d) ==
    [row |-> row_num, name |-> d.name, description |-> d.description,
     price |-> d.price, barcode |-> d.barcode, category |-> d.category,
     stock_quantity |-> d.stock_quantity, cost_price |-> d.cost_price]

C26_ValidCandidates ==
    {C26_Values(C26_Candidates[k].data.row_number, C26_Candidates[k].data) :
        k \in {j \in 1..Len(C26_Candidates) : ~C26_Candidates[j].has_errors}}

C26_Attempted ==
    IF ~ReadsRows(file) THEN {}
    ELSE {C26_Values(i + 1, ImportRowData(file.rows[i], ColumnsOf[file.headers])) :
            i \in {j \in 1..Len(file.rows) :
                     /\ Len(file.rows[j]) > MaxIdx(ColumnsOf[file.headers])
                     /\ ImportRowData(file.rows[j], ColumnsOf[file.headers]).name # <<>>
                     /\ validate_product_data(
                            ImportRowData(file.rows[j], ColumnsOf[file.headers])) = <<>>}}

C26_InvalidLines ==
    UNION {{[row |-> C26_Candidates[k].data.row_number, msg |-> C26_Candidates[k].errors[e]] :
               e \in 1..Len(C26_Candidates[k].errors)} :
           k \in 1..Len(C26_Candidates)}

C26_PreviewAgreesWithImport ==
    [][ImportStep =>
           /\ C26_ValidCandidates = C26_Attempted
           /\ C26_InvalidLines =
                  {last'.errors[k] : k \in {j \in 1..Len(last'.errors) :
                                              last'.errors[j].row # 0}}]_vars

(* C24: after any create_backup call completes (default-named, custom-named, *)
(* scheduled 'auto' or 'pre_restore') the backup directory holds at most    *)
(* max_backups backup files, and the files removed are older than every     *)
(* file that was there before and stays.                                    *)
C24_Completed ==
    /\ nBackups' = nBackups + 1
    /\ \/ last'.op \in {"create_backup", "_scheduled_backup"}
       \/ last'.op = "restore_backup" /\ last'.current_backup # MissingPath

C24_Stays(i) == Exists(backup_dir', PathOf(backup_dir[i]))

C24_Retention ==
    [][C24_Completed =>
          /\ Len(backup_dir') <= backup_settings.max_backups
          /\ \A i, j \in 1..Len(backup_dir) :
                 ~C24_Stays(i) /\ C24_Stays(j) => i < j]_vars

(* C25: restore_backup never overwrites the database without first saving   *)
(* it: called with an existing backup file it replaces the database file    *)
(* only after a 'pre_restore' backup holding the current database has been  *)
(* written, and when it raises it leaves the database file alone; called    *)
(* with a path that does not exist it raises and changes neither the        *)
(* database file nor the backup directory.                                  *)
C25_RestoreStep == nBackups' = nBackups + 1 /\ last'.op = "restore_backup"

C25_SavedFirst ==
    \E i \in 1..Len(backup_dir') :
        /\ backup_dir'[i].prefix = "pre_restore"
        /\ backup_dir'[i].content = db_file

C25_RestoreSavesFirst ==
    [][C25_RestoreStep =>
          IF Exists(backup_dir, last'.path)
          THEN IF last'.raised THEN db_file' = db_file ELSE C25_SavedFirst
          ELSE last'.raised /\ db_file' = db_file /\ backup_dir' = backup_dir]_vars

\* a restore has replaced the database by an older one, and the pre_restore
\* backup holds what it replaced
C25_Witness ==
    /\ last.op = "restore_backup" /\ ~last.raised
    /\ db_file = 1
    /\ \E i \in 1..Len(backup_dir) :
           backup_dir[i].prefix = "pre_restore" /\ backup_dir[i].content = 2

(* C28: at most one backup scheduler thread is ever in the _run_scheduler   *)
(* loop past its test, whatever start_scheduler, stop_scheduler and         *)
(* save_backup_settings calls were made (a thread asleep when the stop was  *)
(* requested does not go round the loop again after a restart), and once    *)
(* stop_scheduler has returned no job is left for a thread to run.          *)
C28_Looping == {t \in 1..Len(threads) : threads[t] = "pending"}

C28_OneSchedulerThread ==
    /\ Cardinality(C28_Looping) <= 1
    /\ caller = "idle" /\ ~scheduler_running => jobs = 0

(* C30: sales never oversell: whatever add_to_cart, add_product_by_barcode, *)
(* update_item_quantity and complete_sale actions were made, no cart line   *)
(* holds a quantity above the stock_quantity of its product, and no         *)
(* completed sale has written a negative stock_quantity.                    *)
C30_NeverOversell ==
    /\ \A k \in 1..Len(cart_items) :
           cart_items[k].quantity <= cart_items[k].product.stock_quantity
    /\ \A k \in 1..Len(db) : db[k].stock_quantity >= 0

====
